---- MODULE Spec2Model ----
(***************************************************************************)
(* A model of tap-shopify: the bulk job poll loop (client_bulk.py), the    *)
(* cost-aware paginator (paginator.py) and the interactive error recovery  *)
(* (client_gql.py), each under its own specification over one set of       *)
(* variables.                                                              *)
(***************************************************************************)
EXTENDS Integers, Sequences, FiniteSets, TLC

\* JSON null / Python None.
Null == "null"

\* Python truthiness of a string-or-None value.
Truthy(x) == x \notin {Null, ""}

Min(a, b) == IF a < b THEN a ELSE b
Max(a, b) == IF a > b THEN a ELSE b

VARIABLES
    \* ---- bulk mode (client_bulk.py) ----
    bpc,            \* position of the bulk parse_response generator
    operation_id,   \* id extracted from the bulkOperationRunQuery response
    now,            \* datetime.now().timestamp(), whole seconds
    start,          \* check_status: start
    status,         \* check_status: the last $.data.currentBulkOperation
    polls,          \* number of get_operation_status calls made
    sleeps,         \* number of sleep(sleep_time) calls made
    result,         \* what check_status returned or raised
    downloads,      \* number of requests.get(url) calls made
    rows,           \* rows yielded by parse_response
    \* ---- the paginator on its own (paginator.py) ----
    pag,            \* the ShopifyPaginator's attributes
    ppc,            \* position of the request loop that drives it
    requested,      \* the last current_value read: dict(first=, after=)
    slept,          \* seconds slept inside the last page_size read
    last_page_size, \* _page_size as the last page_size read found it
    page_response,  \* the response last handed to paginator.advance
    \* ---- interactive mode (client_gql.py) ----
    gpc,            \* position of the interactive sync
    stream_query_name,     \* self.query_name of the stream that is synced
    stack,          \* the active request_records calls, innermost last
    schema,         \* self.schema
    query_cache,    \* the cached_property self.query
    saved_context,  \* self.saved_context
    ignore_access_denied,  \* config["ignore_access_denied"]
    yielded,        \* rows the sync has yielded, in order
    nrequests,      \* requests sent
    gexc,           \* the exception that ended the sync, if any
    pruned,         \* field names ignore_path was called for
    event,          \* what the last step did
    \* ---- discovery and type resolver (tap.py, client.py) ----
    dpc,            \* position of discovery
    schema_gql,     \* the introspected types: the fields of each object type
    disc_config,    \* config: ignore_access_denied, ignore_deprecated
    qi,             \* discover_streams: index of the query the first loop is at
    gql_types_in_schema,   \* TapShopify.gql_types_in_schema
    streams,        \* discover_streams: streams
    si,             \* discover_streams: index of the stream the second loop is at
    rstack,         \* the active get_fields_schema calls, innermost last
    objs,           \* verify_recursion: objs
    nested_connections,    \* ShopifyStream.nested_connections
    schemas,        \* the schema of each stream yielded so far
    expanded,       \* object types expanded for the stream being resolved
    last_field,     \* what the resolver did with the last field
    \* ---- the bulk query builder (client_bulk.py) ----
    qpc,            \* position of the builder
    bstream,        \* the attributes of the stream the query is built for
    document,       \* the query built
    \* ---- one sync of a stream in either mode (tap.py, client.py) ----
    spc,            \* position of request_records
    config_bulk,    \* the "bulk" entry of the config, if any
    submissions     \* bulk submissions sent

bulk_vars == <<bpc, operation_id, now, start, status, polls, sleeps, result,
               downloads, rows>>

pag_vars == <<pag, ppc, requested, slept, last_page_size, page_response>>

gql_vars == <<gpc, stream_query_name, stack, schema, query_cache, saved_context,
              ignore_access_denied, yielded, nrequests, gexc, pruned, event>>

disc_vars == <<dpc, schema_gql, disc_config, qi, gql_types_in_schema, streams,
               si, rstack, objs, nested_connections, schemas, expanded,
               last_field>>

query_vars == <<qpc, bstream, document>>

sync_vars == <<spc, config_bulk, submissions>>

vars == <<bulk_vars, pag_vars, gql_vars, disc_vars, query_vars, sync_vars>>

\* What the actions of one part leave alone.
other_than_bulk == <<pag_vars, gql_vars, disc_vars, query_vars, sync_vars>>
other_than_pag == <<bulk_vars, gql_vars, disc_vars, query_vars, sync_vars>>
other_than_gql == <<bulk_vars, pag_vars, disc_vars, query_vars, sync_vars>>
other_than_disc == <<bulk_vars, pag_vars, gql_vars, query_vars, sync_vars>>
other_than_query == <<bulk_vars, pag_vars, gql_vars, disc_vars, sync_vars>>
other_than_sync == <<pag_vars, disc_vars, query_vars>>


(***************************************************************************)
(* Adaptive paginator: paginator.py                                        *)
(***************************************************************************)

\* ShopifyPaginator.__init__: self._single_query_max_cost_limt = 1000
_single_query_max_cost_limt == 1000
\* ShopifyPaginator.__init__: self._max_points = 10000
_max_points_default == 10000
\* page_size: 250 if new_page_size > 250
max_page_size == 250

\* Most responses one request loop is followed through.
MaxPages == 3

\* extensions.cost values the server is taken to report.
QueryCosts == {20, 200, 300, 1001}
AvailablePoints == {0, 100, 2500}
RestoreRates == {50, 100}
MaximumAvailable == {10000, 20000}
Cursors == {"cursor1", "cursor2"}

CostBlocks ==
    [requestedQueryCost : QueryCosts, currentlyAvailable : AvailablePoints,
     restoreRate : RestoreRates, maximumAvailable : MaximumAvailable]

NoCost ==
    [requestedQueryCost |-> 0, currentlyAvailable |-> 0,
     restoreRate |-> 0, maximumAvailable |-> 0]

\* What get_next reads of a response: whether it has a non-empty top-level
\* errors entry, its cost block and the connection's pageInfo.
PageResponses ==
    [errors : {FALSE}, cost : CostBlocks, hasNextPage : BOOLEAN,
     endCursor : Cursors \cup {Null}]
    \cup
    [errors : {TRUE}, cost : {NoCost}, hasNextPage : {FALSE}, endCursor : {Null}]

\* None in an attribute that otherwise holds a number.
NoneNum == -1

\* ShopifyPaginator.__init__ (BaseAPIPaginator sets _value to the start
\* value, None).
new_paginator ==
    [_value |-> Null,
     _page_count |-> 0,
     _page_size |-> 0,
     _finished |-> FALSE,
     _query_cost |-> NoneNum,
     _available_points |-> NoneNum,
     _restore_rate |-> NoneNum,
     _max_points |-> _max_points_default]

\* Python truthiness of an int-or-None value.
TruthyNum(x) == x # NoneNum /\ x # 0

\* math.ceil(a / b) for positive b.
CeilDiv(a, b) == (a + b - 1) \div b

\* min_leftover_points in page_size.
min_leftover_points(p) ==
    Max(p._max_points \div 4, 2 * _single_query_max_cost_limt)

\* The (query cost, page size) pairs among QueryCosts x 1..250 for which
\* 1000 / (cost / size), computed in double precision as page_size does,
\* falls just below the integer that 1000 * size / cost is exactly, so that
\* int() truncates to one less.
FloatShortfall ==
    {<<200, 3>>, <<200, 6>>, <<200, 11>>, <<200, 12>>,
     <<200, 22>>, <<200, 24>>, <<200, 39>>, <<200, 44>>, <<200, 48>>,
     <<300, 9>>, <<300, 18>>, <<300, 33>>, <<300, 36>>, <<300, 66>>,
     <<300, 72>>}

\* 250 if new_page_size > 250 else int(new_page_size), where
\* new_page_size = cost_limit / (query_cost / page_size) in floats.
new_page_size(cost, size) ==
    LET exact == (_single_query_max_cost_limt * size) \div cost IN
    IF _single_query_max_cost_limt * size > max_page_size * cost
    THEN max_page_size
    ELSE IF <<cost, size>> \in FloatShortfall THEN exact - 1 ELSE exact

\* The page_size property: the paginator after the read, the value returned,
\* the seconds slept on the way, and the exception raised if any.
page_size(p) ==
    IF ~TruthyNum(p._available_points) \/ ~TruthyNum(p._query_cost)
    THEN [pag |-> [p EXCEPT !._page_size = 1], value |-> 1, sleep |-> 0,
          raised |-> Null]
    ELSE
      LET sleep_s == IF p._available_points < min_leftover_points(p)
                     THEN CeilDiv(min_leftover_points(p) - p._available_points,
                                  p._restore_rate)
                     ELSE 0
      IN IF p._page_size = 0
         THEN [pag |-> p, value |-> Null, sleep |-> sleep_s,
               raised |-> "ZeroDivisionError"]
         ELSE LET n == new_page_size(p._query_cost, p._page_size) IN
              [pag |-> [p EXCEPT !._page_size = n], value |-> n,
               sleep |-> sleep_s, raised |-> Null]

\* A mutant of get_next: the cost block is stored before the errors entry is
\* looked at.
get_next_cost_first(p, resp) ==
    LET q == [p EXCEPT !._query_cost = resp.cost.requestedQueryCost,
                       !._available_points = resp.cost.currentlyAvailable,
                       !._restore_rate = resp.cost.restoreRate,
                       !._max_points = resp.cost.maximumAvailable]
    IN [pag |-> q,
        value |-> IF ~resp.errors /\ resp.hasNextPage THEN resp.endCursor
                  ELSE Null]

\* get_next: the paginator after it and the token it returns.
get_next(p, resp) ==
    IF resp.errors
    THEN [pag |-> p, value |-> Null]
    ELSE LET q == [p EXCEPT !._query_cost = resp.cost.requestedQueryCost,
                            !._available_points = resp.cost.currentlyAvailable,
                            !._restore_rate = resp.cost.restoreRate,
                            !._max_points = resp.cost.maximumAvailable]
         IN [pag |-> q,
             value |-> IF resp.hasNextPage THEN resp.endCursor ELSE Null]

\* BaseAPIPaginator.advance, with has_more always True: the paginator after
\* it and the exception raised if any.
advance(p, resp) ==
    LET counted == [p EXCEPT !._page_count = p._page_count + 1]
        got == get_next(counted, resp)
    IN IF Truthy(got.value) /\ got.value = p._value
       THEN [pag |-> got.pag, raised |-> "RuntimeError"]
       ELSE IF ~Truthy(got.value)
       THEN [pag |-> [got.pag EXCEPT !._finished = TRUE], raised |-> Null]
       ELSE [pag |-> [got.pag EXCEPT !._value = got.value], raised |-> Null]

NoRequest == [first |-> 0, after |-> Null]

NoPageResponse ==
    [errors |-> FALSE, cost |-> NoCost, hasNextPage |-> FALSE, endCursor |-> Null]

PagStart ==
    /\ pag = new_paginator
    /\ ppc = "request"
    /\ requested = NoRequest
    /\ slept = 0
    /\ last_page_size = 0
    /\ page_response = NoPageResponse

\* The loop head of request_records: while not paginator.finished, read
\* paginator.current_value, which is dict(first=self.page_size, after=self._value),
\* and send the request.
pag_current_value ==
    /\ ppc = "request"
    /\ ~pag._finished
    /\ pag._page_count < MaxPages
    /\ LET r == page_size(pag) IN
       /\ pag' = r.pag
       /\ slept' = r.sleep
       /\ last_page_size' = pag._page_size
       /\ IF r.raised # Null
          THEN /\ ppc' = "raised"
               /\ requested' = requested
          ELSE /\ ppc' = "response"
               /\ requested' = [first |-> r.value, after |-> pag._value]
    /\ UNCHANGED page_response
    /\ UNCHANGED other_than_pag

\* The loop's end: the response came back and paginator.advance(resp) runs.
pag_advance ==
    /\ ppc = "response"
    /\ \E resp \in PageResponses :
         LET r == advance(pag, resp) IN
         /\ pag' = r.pag
         /\ page_response' = resp
         /\ ppc' = IF r.raised # Null THEN "raised"
                   ELSE IF r.pag._finished THEN "done"
                   ELSE "request"
    /\ UNCHANGED <<requested, slept, last_page_size>>
    /\ UNCHANGED other_than_pag

\* paginator.current_value is read once more before the response is handed
\* to advance: the page_size property runs again.
pag_read_again ==
    /\ ppc = "response"
    /\ LET r == page_size(pag) IN
       /\ pag' = r.pag
       /\ slept' = r.sleep
       /\ last_page_size' = pag._page_size
       /\ IF r.raised # Null
          THEN /\ ppc' = "raised"
               /\ requested' = requested
          ELSE /\ ppc' = "response"
               /\ requested' = [first |-> r.value, after |-> pag._value]
    /\ UNCHANGED page_response
    /\ UNCHANGED other_than_pag

NextPag ==
    \/ pag_current_value
    \/ pag_advance

PagIdle ==
    /\ pag = new_paginator
    /\ ppc = "idle"
    /\ requested = NoRequest
    /\ slept = 0
    /\ last_page_size = 0
    /\ page_response = NoPageResponse

(***************************************************************************)
(* Record schema and query builder: client.py, client_gql.py               *)
(***************************************************************************)

\* JSON values of a record schema. A Python dict is a sequence of entries in
\* insertion order, a list is a sequence of strings.
Str(x) == [t |-> "str", s |-> x]
List(x) == [t |-> "list", l |-> x]
Dict(x) == [t |-> "dict", e |-> x]
KV(key, value) == [k |-> key, v |-> value]

\* isinstance(d, dict)
IsDict(d) == d.t = "dict"
\* key in d
HasKey(d, key) == \E i \in 1..Len(d.e) : d.e[i].k = key
\* d[key]
Get(d, key) == d.e[CHOOSE i \in 1..Len(d.e) : d.e[i].k = key].v
\* list(d)
Keys(d) == [i \in 1..Len(d.e) |-> d.e[i].k]
\* x in a list
InList(x, l) == \E i \in 1..Len(l) : l[i] = x

\* list.remove(x): the list without the first occurrence of x.
RECURSIVE ListRemove(_, _)
ListRemove(l, x) ==
    IF l = <<>> THEN <<>>
    ELSE IF Head(l) = x THEN Tail(l)
    ELSE <<Head(l)>> \o ListRemove(Tail(l), x)

\* th.Property(name, th.StringType).to_dict()
StringProperty == Dict(<<KV("type", List(<<"string", "null">>))>>)
\* th.Property(name, th.StringType, required=True).to_dict()
RequiredStringProperty == Dict(<<KV("type", List(<<"string">>))>>)
\* th.Property(name, th.DateTimeType).to_dict()
DateTimeProperty ==
    Dict(<<KV("type", List(<<"string", "null">>)), KV("format", Str("date-time"))>>)
\* th.Property(name, th.ObjectType(*properties)).to_dict(): the required
\* entry is there when a property of the object is required.
ObjectProperty(properties, required) ==
    Dict(<<KV("type", List(<<"object", "null">>)),
           KV("properties", Dict(properties))>>
         \o (IF required = <<>> THEN <<>>
             ELSE <<KV("required", List(required))>>))
\* th.PropertiesList(*properties).to_dict()
PropertiesList(properties) ==
    Dict(<<KV("type", Str("object")), KV("properties", Dict(properties))>>)

\* The entity the interactive sync is followed for, as discover_streams
\* describes it.
query_name == stream_query_name
primary_keys == {"id"}
replication_key == "updatedAt"

\* Its schema as the stream's schema property builds it with
\* ignore_access_denied set: no field is required, except the id of a
\* reference to another entity (lastOrder), which extract_field_type
\* always marks required.
CustomersSchema ==
    PropertiesList(<<
        KV("id", StringProperty),
        KV("updatedAt", DateTimeProperty),
        KV("email", StringProperty),
        KV("defaultAddress", ObjectProperty(<<
            KV("city", StringProperty),
            KV("email", StringProperty)>>, <<>>)),
        KV("lastOrder", ObjectProperty(<<
            KV("id", RequiredStringProperty)>>, <<"id">>))>>)

\* The schema of orders: the schema property adds lineItems, an object
\* without properties, to what the resolver produced.
OrdersSchema ==
    PropertiesList(<<
        KV("id", StringProperty),
        KV("updatedAt", DateTimeProperty),
        KV("email", StringProperty),
        KV("lineItems", Dict(<<KV("type", List(<<"object", "null">>))>>))>>)

\* The schema the sync of the stream starts with.
InitialSchema ==
    IF query_name = "orders" THEN OrdersSchema ELSE CustomersSchema

\* The fixed selection of the line items of an order that is added to the
\* query of orders: its fields are not fields of the schema.
order_line_items_query == <<"lineItems", "{", "sku", "}">>

RECURSIVE delete_schema_item(_, _)
RECURSIVE delete_schema_entries(_, _)

\* The for loop of delete_schema_item over the entries left in d.
delete_schema_entries(entries, target_key) ==
    IF entries = <<>> THEN <<>>
    ELSE LET en == Head(entries)
             value ==
                 IF /\ en.k = "required"
                    /\ en.v.t = "list"
                    /\ InList(target_key, en.v.l)
                 THEN List(ListRemove(en.v.l, target_key))
                 ELSE delete_schema_item(en.v, target_key)
         IN <<KV(en.k, value)>> \o delete_schema_entries(Tail(entries), target_key)

\* delete_schema_item(d, target_key)
delete_schema_item(d, target_key) ==
    IF ~IsDict(d) THEN d
    ELSE Dict(delete_schema_entries(
                  SelectSeq(d.e, LAMBDA en : en.k # target_key), target_key))

\* selected_properties: the top-level fields whose metadata is selected, or
\* that are a primary key or the stream's own replication key rk.
selected_properties(sch, selection, rk) ==
    {name \in {Keys(Get(sch, "properties"))[i] :
                   i \in 1..Len(Get(sch, "properties").e)} :
        \/ name \in selection
        \/ name \in primary_keys
        \/ name = rk}

RECURSIVE denest_schema(_)
\* denest_schema(schema) in gql_selected_fields: the selection set as a
\* sequence of tokens, a field name or a brace, for the newline-separated
\* text the code builds.
denest_schema(properties) ==
    IF properties.e = <<>> THEN <<>>
    ELSE LET key == Head(properties.e).k
             value == Head(properties.e).v
             rest == denest_schema(Dict(Tail(properties.e)))
             inner == IF HasKey(value, "items") THEN Get(value, "items") ELSE value
         IN IF query_name = "orders" /\ key = "lineItems"
            THEN rest
            ELSE IF HasKey(inner, "properties")
            THEN <<key, "{">> \o denest_schema(Get(inner, "properties"))
                              \o <<"}">> \o rest
            ELSE <<key>> \o rest

\* gql_selected_fields: the schema's properties restricted to the selected
\* ones, denested.
gql_selected_fields(sch, selected) ==
    denest_schema(
        Dict(SelectSeq(Get(sch, "properties").e, LAMBDA en : en.k \in selected)))
    \o (IF query_name = "orders" THEN order_line_items_query ELSE <<>>)

\* shopifyGqlStream.query: the query document, as the values spliced into
\* the query_incremental template.
query(sch, selected) ==
    [query_name |-> query_name,
     selected_fields |-> gql_selected_fields(sch, selected)]

(***************************************************************************)
(* Interactive sync and error recovery: client_gql.py                      *)
(***************************************************************************)

\* Most requests one interactive sync is followed through.
MaxRequests == 3

\* The top-level fields selected in the catalog.
Selection == {"email", "defaultAddress", "lastOrder"}
\* self.selected_properties, cached before the first request.
SelectedProperties ==
    selected_properties(InitialSchema, Selection, replication_key)

\* The context values request_records is first called with.
Contexts == {Null, "partition"}

\* The records the server holds for the entity and the cursor of each.
ServerRows == <<"row1", "row2", "row3">>
ServerCursors == <<"c1", "c2", "c3">>

\* extensions.cost of every successful response of the server.
GqlCost ==
    [requestedQueryCost |-> 500, currentlyAvailable |-> 5000,
     restoreRate |-> 50, maximumAvailable |-> 10000]

\* error.extensions.code values; OtherCode stands for every code the
\* handler has no branch for.
AccessDenied == "ACCESS_DENIED"
MissingRequiredArguments == "missingRequiredArguments"
OtherCode == "undefinedField"

\* An error entry: its code and its path, <<>> when it has no path.
Error(code, path) == [code |-> code, path |-> path]
NoError == Error(Null, <<>>)

\* The path of the entity's connection and of a field of its first node.
TopPath == <<query_name>>
NodePath(field_path) == <<query_name, "edges", "0", "node">> \o field_path

\* The fields the server can refuse access to.
DeniableFields ==
    {<<"defaultAddress", "city">>, <<"defaultAddress", "email">>,
     <<"lastOrder", "id">>, <<"lineItems", "sku">>}
\* The field the server can report another error for.
FaultyFields == {<<"defaultAddress", "city">>}

RECURSIVE TokenPaths(_, _, _)
\* The field paths a selection set names: parents is the path of the branch
\* the tokens are read in, last the field named before them.
TokenPaths(tokens, parents, last) ==
    IF tokens = <<>> THEN {}
    ELSE LET t == Head(tokens) IN
         IF t = "{" THEN TokenPaths(Tail(tokens), parents \o <<last>>, last)
         ELSE IF t = "}"
         THEN TokenPaths(Tail(tokens), SubSeq(parents, 1, Len(parents) - 1), last)
         ELSE {parents \o <<t>>} \cup TokenPaths(Tail(tokens), parents, t)

\* The fields a query document selects.
QueryFields(q) == TokenPaths(q.selected_fields, <<>>, Null)

\* The errors the server can put in the response to a query: field errors
\* for fields the query selects, errors on the connection and errors
\* without a path.
ServerErrors(q) ==
    {Error(AccessDenied, NodePath(f)) : f \in DeniableFields \cap QueryFields(q)}
    \cup {Error(OtherCode, NodePath(f)) : f \in FaultyFields \cap QueryFields(q)}
    \cup {Error(AccessDenied, TopPath), Error(OtherCode, TopPath),
          Error(AccessDenied, <<>>), Error(MissingRequiredArguments, <<>>),
          Error(OtherCode, <<>>)}

\* The errors entries a response can carry: none, one error or two.
ErrorLists(q) ==
    {<<>>}
    \cup {<<e>> : e \in ServerErrors(q)}
    \cup {pair \in ServerErrors(q) \X ServerErrors(q) : pair[1] # pair[2]}

\* Every error of the list is about a field of a node: the response then
\* still carries the page's data.
FieldScoped(errors) ==
    \A i \in 1..Len(errors) : Len(errors[i].path) > 1

\* The page of the connection that (first, after) asks for.
Page(first, after) ==
    LET pos == IF after = Null THEN 0
               ELSE CHOOSE i \in 1..Len(ServerCursors) : ServerCursors[i] = after
        hi == Min(pos + first, Len(ServerRows))
    IN [rows |-> SubSeq(ServerRows, pos + 1, hi),
        hasNextPage |-> hi < Len(ServerRows),
        endCursor |-> IF hi > pos THEN ServerCursors[hi] ELSE Null]

NoQuery == [query_name |-> Null, selected_fields |-> <<>>]
NoVariables == [first |-> 0, after |-> Null, filter |-> Null]
NoGqlRequest == [query |-> NoQuery, variables |-> NoVariables, context |-> Null]
NoResponse ==
    [errors |-> <<>>, rows |-> <<>>, hasNextPage |-> FALSE, endCursor |-> Null,
     cost |-> NoCost]

\* The responses the server can give to a request.
Responses(req) ==
    LET page == Page(req.variables.first, req.variables.after) IN
    {IF FieldScoped(errors)
     THEN [errors |-> errors, rows |-> page.rows,
           hasNextPage |-> page.hasNextPage, endCursor |-> page.endCursor,
           cost |-> GqlCost]
     ELSE [NoResponse EXCEPT !.errors = errors] : errors \in ErrorLists(req.query)}

\* response.json() as get_next reads it.
PageResponse(resp) ==
    [errors |-> resp.errors # <<>>, cost |-> resp.cost,
     hasNextPage |-> resp.hasNextPage, endCursor |-> resp.endCursor]

\* The filter for the stream's starting timestamp.
StartFilter == "updated_at:>2024-01-01T00:00:00"

\* get_url_params(context, next_page_token) for a stream with a replication
\* key and no single_object_params.
get_url_params(context, next_page_token) ==
    [first |-> next_page_token.first, after |-> next_page_token.after,
     filter |-> StartFilter]

\* prepare_request_payload(context, next_page_token): the request data, and
\* the context it was prepared for.
prepare_request_payload(context, next_page_token, q) ==
    [query |-> q, variables |-> get_url_params(context, next_page_token),
     context |-> context]

\* The cached_property query: not computed yet, or deleted.
NotCached == [cached |-> FALSE, value |-> NoQuery]
Cached(q) == [cached |-> TRUE, value |-> q]

\* self.query: the cache after the read.
read_query(cache, sch) ==
    IF cache.cached THEN cache ELSE Cached(query(sch, SelectedProperties))

\* A mutant of ignore_path: the cached query is not deleted.
ignore_path_keeps_query(sch, cache, path) ==
    [schema |-> delete_schema_item(sch, path[Len(path)]), query_cache |-> cache]

\* ignore_path(path): the schema and the query cache after it.
ignore_path(sch, cache, path) ==
    [schema |-> delete_schema_item(sch, path[Len(path)]), query_cache |-> NotCached]

\* What parse_response does with one error of the list.
Prune == [kind |-> "prune", exc |-> Null]
Abandon == [kind |-> "return", exc |-> Null]
Raise(exc) == [kind |-> "raise", exc |-> exc]

\* A mutant of handle_error: an access-denied error on the connection itself
\* is pruned and replayed like one on a field.
handle_error_no_top_level(error) ==
    IF error.code = AccessDenied
    THEN IF error.path = <<>> THEN Raise("KeyError")
         ELSE Prune
    ELSE IF error.code = MissingRequiredArguments THEN Abandon
    ELSE IF error.path # <<>>
    THEN IF Len(error.path) = 1 THEN Abandon ELSE Prune
    ELSE Raise("Exception")

\* A mutant of handle_error: an error the handler has no branch for is
\* skipped instead of raised.
handle_error_skips_unknown(error) ==
    IF error.code = AccessDenied
    THEN IF error.path = <<>> THEN Raise("KeyError")
         ELSE IF Len(error.path) = 1 THEN Abandon
         ELSE Prune
    ELSE IF error.code = MissingRequiredArguments THEN Abandon
    ELSE IF error.path # <<>>
    THEN IF Len(error.path) = 1 THEN Abandon ELSE Prune
    ELSE Abandon

\* The body of the for loop of parse_response over the errors.
handle_error(error) ==
    IF error.code = AccessDenied
    THEN IF error.path = <<>> THEN Raise("KeyError")
         ELSE IF Len(error.path) = 1 THEN Abandon
         ELSE Prune
    ELSE IF error.code = MissingRequiredArguments THEN Abandon
    ELSE IF error.path # <<>>
    THEN IF Len(error.path) = 1 THEN Abandon ELSE Prune
    ELSE Raise("Exception")

\* One call of request_records: its paginator, its context, the request it
\* sent last, the response to it and the error parse_response is at.
Frame(p, context) ==
    [pag |-> p, context |-> context, req |-> NoGqlRequest,
     resp |-> NoResponse, idx |-> 0]

Top == stack[Len(stack)]
Below == SubSeq(stack, 1, Len(stack) - 1)

Event(kind, error) == [kind |-> kind, error |-> error, depth |-> Len(stack)]

GqlStartOf(name) ==
    /\ gpc = "request"
    /\ stream_query_name = name
    /\ \E context \in Contexts :
         /\ stack = <<Frame(new_paginator, context)>>
         /\ saved_context = Null
    /\ schema = InitialSchema
    /\ query_cache = NotCached
    /\ ignore_access_denied \in BOOLEAN
    /\ yielded = <<>>
    /\ nrequests = 0
    /\ gexc = Null
    /\ pruned = {}
    /\ event = [kind |-> "start", error |-> NoError, depth |-> 0]

\* The sync of customers starts.
GqlStart == GqlStartOf("customers")

\* The sync of orders starts.
OrdersStart == GqlStartOf("orders")

\* The head of the loop of request_records: while not paginator.finished,
\* prepare the request from paginator.current_value and the context, send it
\* and take the response.
gql_request ==
    /\ gpc = "request"
    /\ nrequests < MaxRequests
    /\ LET r == page_size(Top.pag) IN
       IF r.raised # Null
       THEN /\ gpc' = "raised"
            /\ gexc' = r.raised
            /\ event' = Event("raise", NoError)
            /\ UNCHANGED <<stack, query_cache, saved_context, nrequests>>
       ELSE LET current_value == [first |-> r.value, after |-> Top.pag._value]
                cache == read_query(query_cache, schema)
                req == prepare_request_payload(Top.context, current_value,
                                               cache.value)
            IN /\ query_cache' = cache
               /\ saved_context' = Top.context
               /\ nrequests' = nrequests + 1
               /\ \E resp \in Responses(req) :
                    stack' = Below \o <<[Top EXCEPT !.pag = r.pag, !.req = req,
                                                    !.resp = resp, !.idx = 1]>>
               /\ gpc' = "parse"
               /\ gexc' = gexc
               /\ event' = Event("request", NoError)
    /\ UNCHANGED <<schema, ignore_access_denied, yielded, pruned>>
    /\ UNCHANGED stream_query_name
    /\ UNCHANGED other_than_gql

\* The end of an iteration of the loop of request_records, once
\* parse_response is exhausted: paginator.advance(resp). A finished
\* paginator ends the call, and the parse_response that made the call goes
\* on with its next error.
loop_end ==
    LET a == advance(Top.pag, PageResponse(Top.resp)) IN
    IF a.raised # Null
    THEN /\ gpc' = "raised"
         /\ gexc' = a.raised
         /\ stack' = Below \o <<[Top EXCEPT !.pag = a.pag]>>
    ELSE IF ~a.pag._finished
    THEN /\ gpc' = "request"
         /\ gexc' = gexc
         /\ stack' = Below \o <<[Top EXCEPT !.pag = a.pag]>>
    ELSE IF Len(stack) = 1
    THEN /\ gpc' = "done"
         /\ gexc' = gexc
         /\ stack' = <<>>
    ELSE /\ gpc' = "parse"
         /\ gexc' = gexc
         /\ stack' = SubSeq(Below, 1, Len(Below) - 1)
                       \o <<[Below[Len(Below)] EXCEPT !.idx = @ + 1]>>

\* parse_response with no error left to handle: the rows of the response
\* are yielded, and the loop goes on.
gql_parse_rows ==
    /\ gpc = "parse"
    /\ Top.idx > Len(Top.resp.errors)
    /\ yielded' = yielded \o Top.resp.rows
    /\ event' = Event("rows", NoError)
    /\ loop_end
    /\ UNCHANGED <<schema, query_cache, saved_context, ignore_access_denied,
                   nrequests, pruned>>
    /\ UNCHANGED stream_query_name
    /\ UNCHANGED other_than_gql

\* parse_response at an error of the response: with pruning disabled the
\* errors are raised; otherwise the error is handled. A pruned field is
\* followed by a new call of request_records with the saved context.
gql_parse_error ==
    /\ gpc = "parse"
    /\ Top.idx <= Len(Top.resp.errors)
    /\ LET error == Top.resp.errors[Top.idx]
           h == IF ~ignore_access_denied THEN Raise("Exception")
                ELSE handle_error(error)
       IN
       /\ event' = Event(h.kind, error)
       /\ IF h.kind = "raise"
          THEN /\ gpc' = "raised"
               /\ gexc' = h.exc
               /\ UNCHANGED <<stack, schema, query_cache, pruned>>
          ELSE IF h.kind = "return"
          THEN /\ loop_end
               /\ UNCHANGED <<schema, query_cache, pruned>>
          ELSE LET ip == ignore_path(schema, query_cache, error.path) IN
               /\ schema' = ip.schema
               /\ query_cache' = ip.query_cache
               /\ pruned' = pruned \cup {error.path[Len(error.path)]}
               /\ stack' = stack \o <<Frame(new_paginator, saved_context)>>
               /\ gpc' = "request"
               /\ gexc' = gexc
    /\ UNCHANGED <<saved_context, ignore_access_denied, yielded, nrequests>>
    /\ UNCHANGED stream_query_name
    /\ UNCHANGED other_than_gql

NextGql ==
    \/ gql_request
    \/ gql_parse_rows
    \/ gql_parse_error

GqlIdle ==
    /\ gpc = "idle"
    /\ stream_query_name = "customers"
    /\ stack = <<>>
    /\ schema = CustomersSchema
    /\ query_cache = NotCached
    /\ saved_context = Null
    /\ ignore_access_denied = TRUE
    /\ yielded = <<>>
    /\ nrequests = 0
    /\ gexc = Null
    /\ pruned = {}
    /\ event = [kind |-> "start", error |-> NoError, depth |-> 0]

(***************************************************************************)
(* Discovery and type resolver: tap.py, client.py                          *)
(***************************************************************************)

\* A type reference of the introspection result: kind, name and the wrapped
\* type; NoType is the null ofType of a named type.
NoType == [kind |-> Null, name |-> Null, ofType |-> Null]
Named(kind, name) == [kind |-> kind, name |-> name, ofType |-> NoType]
NonNull(t) == [kind |-> "NON_NULL", name |-> Null, ofType |-> t]
ListOf(t) == [kind |-> "LIST", name |-> Null, ofType |-> t]
Scalar(name) == Named("SCALAR", name)
Object(name) == Named("OBJECT", name)

\* A field of an introspected type.
Field(name, type) ==
    [name |-> name, args |-> <<>>, isDeprecated |-> FALSE, type |-> type]
FieldWithArgs(name, args, type) ==
    [name |-> name, args |-> args, isDeprecated |-> FALSE, type |-> type]
DeprecatedField(name, type) ==
    [name |-> name, args |-> <<>>, isDeprecated |-> TRUE, type |-> type]

\* The ways the type graphs differ: what Address.reference refers to, how
\* Customer.addresses wraps Address and Address.country wraps Country,
\* whether Country has a scalar field, and whether Product.id is non-null.
ReferenceTargets ==
    {Object("Address"), Object("Customer"), Object("Order"), Scalar("String")}
AddressWrappers ==
    {"plain", "non_null", "non_null_list", "list", "non_null_list_of_nullable"}
\* T, T!, [T!]!, [T!] and [T]!.
Wrap(w, t) ==
    IF w = "plain" THEN t
    ELSE IF w = "non_null" THEN NonNull(t)
    ELSE IF w = "non_null_list" THEN NonNull(ListOf(NonNull(t)))
    ELSE IF w = "list" THEN ListOf(NonNull(t))
    ELSE NonNull(ListOf(t))

ObjectTypeNames ==
    {"Customer", "Order", "Product", "Address", "Country", "Fulfillment"}

\* $.data.__schema.types of the schema introspection: the fields of each
\* object type. Address and Country refer to each other, Address may refer
\* to itself, Fulfillment refers to Order twice.
TypeGraph(reference, wrapper, country_name, product_id) ==
    [type \in ObjectTypeNames |->
       IF type = "Customer" THEN
         <<Field("id", NonNull(Scalar("ID"))),
           Field("createdAt", NonNull(Scalar("DateTime"))),
           Field("updatedAt", NonNull(Scalar("DateTime"))),
           Field("email", Scalar("String")),
           Field("state", NonNull(Named("ENUM", "CustomerState"))),
           DeprecatedField("legacyId", Scalar("Int")),
           Field("defaultAddress", Object("Address")),
           Field("addresses", Wrap(wrapper, Object("Address"))),
           Field("lastOrder", Object("Order")),
           FieldWithArgs("orders", <<"first", "after">>,
                         NonNull(Object("OrderConnection"))),
           FieldWithArgs("metafield", <<"key">>, Object("Metafield")),
           Field("events", Named("INTERFACE", "Event"))>>
       ELSE IF type = "Order" THEN
         <<Field("id", NonNull(Scalar("ID"))),
           Field("createdAt", NonNull(Scalar("DateTime"))),
           Field("processedAt", NonNull(Scalar("DateTime"))),
           Field("totalPrice", Scalar("Float")),
           Field("customer", Object("Customer")),
           Field("shippingAddress", Object("Address")),
           Field("billingAddress", Object("Address")),
           Field("fulfillment", Object("Fulfillment"))>>
       ELSE IF type = "Product" THEN
         <<Field("id", IF product_id THEN NonNull(Scalar("ID")) ELSE Scalar("ID")),
           Field("title", NonNull(Scalar("String")))>>
       ELSE IF type = "Address" THEN
         <<Field("city", Scalar("String")),
           Field("country", Wrap(wrapper, Object("Country"))),
           Field("reference", reference)>>
       ELSE IF type = "Country" THEN
         (IF country_name THEN <<Field("name", NonNull(Scalar("String")))>>
          ELSE <<>>)
         \o <<Field("capital", Object("Address"))>>
       ELSE
         <<Field("status", Named("ENUM", "FulfillmentStatus")),
           Field("order", NonNull(Object("Order"))),
           Field("originalOrder", Object("Order"))>>]

TypeGraphs ==
    {TypeGraph(reference, wrapper, country_name, product_id) :
        reference \in ReferenceTargets, wrapper \in AddressWrappers,
        country_name \in BOOLEAN, product_id \in BOOLEAN}

\* A field of the query type: its name, the names of its arguments and the
\* record type of the nodes field of its connection, Null without one.
\* The name is given by its characters, which underscore works on.
RECURSIVE Text(_)
\* "".join(characters)
Text(characters) ==
    IF characters = <<>> THEN ""
    ELSE Head(characters) \o Text(Tail(characters))
Query(spelling, args, nodes) ==
    [name |-> Text(spelling), spelling |-> spelling, args |-> args,
     nodes |-> nodes]

\* $.data.__schema.queryType.fields of the queries introspection.
QueryFieldsGql ==
    <<Query(<<"c", "u", "s", "t", "o", "m", "e", "r", "s">>,
            <<"first", "after", "query">>, "Customer"),
      Query(<<"s", "h", "o", "p">>, <<>>, Null),
      Query(<<"o", "r", "d", "e", "r", "s">>,
            <<"first", "after", "query">>, "Order"),
      Query(<<"p", "r", "o", "d", "u", "c", "t", "s">>,
            <<"first", "after", "query">>, "Product"),
      Query(<<"c", "o", "u", "n", "t", "r", "i", "e", "s">>,
            <<"first", "query">>, "Country"),
      Query(<<"n", "o", "d", "e">>, <<"id">>, Null),
      Query(<<"e", "v", "e", "n", "t", "s">>, <<"first", "query">>, Null)>>

\* filter_queries(query)
filter_queries(q) == InList("first", q.args) /\ InList("query", q.args)

\* queries_gql: the query fields that take a page size and a filter.
queries_gql == SelectSeq(QueryFieldsGql, filter_queries)

\* get_type_fields(gql_type): the fields that are a non-null scalar, each
\* with its scalar type.
get_type_fields(graph, gql_type) ==
    LET filtered == SelectSeq(graph[gql_type],
                        LAMBDA f : /\ f.type.kind = "NON_NULL"
                                   /\ f.type.ofType.kind = "SCALAR")
    IN [i \in 1..Len(filtered) |->
            [name |-> filtered[i].name, type |-> filtered[i].type.ofType]]

\* The incremental fields of discover_streams, ordered by priority.
incremental_fields ==
    <<"updatedAt", "editedAt", "lastEditDate", "occurredAt", "createdAt",
      "startedAt", "processedAt">>

\* pk = [k for k, v in fields_def.items() if v["name"] == "ID"]
primary_key_fields(fields_def) ==
    LET ids == SelectSeq(fields_def, LAMBDA f : f.type.name = "ID")
    IN [i \in 1..Len(ids) |-> ids[i].name]

\* rk = next((i for i in incremental_fields if i in date_fields), None)
replication_key_field(fields_def) ==
    LET dates == SelectSeq(fields_def, LAMBDA f : f.type.name = "DateTime")
        date_fields == {dates[i].name : i \in 1..Len(dates)}
        found == SelectSeq(incremental_fields, LAMBDA name : name \in date_fields)
    IN IF found = <<>> THEN Null ELSE Head(found)

\* A mutant of has_primary_key: an entity without primary key is kept.
has_primary_key_always(pk) == TRUE

\* The test of `if not pk: continue`.
has_primary_key(pk) == pk # <<>>

UpperCase ==
    <<"A", "B", "C", "D", "E", "F", "G", "H", "I", "J", "K", "L", "M",
      "N", "O", "P", "Q", "R", "S", "T", "U", "V", "W", "X", "Y", "Z">>
LowerCase ==
    <<"a", "b", "c", "d", "e", "f", "g", "h", "i", "j", "k", "l", "m",
      "n", "o", "p", "q", "r", "s", "t", "u", "v", "w", "x", "y", "z">>
Digits == {"0", "1", "2", "3", "4", "5", "6", "7", "8", "9"}
is_upper(c) == InList(c, UpperCase)
is_lower(c) == InList(c, LowerCase)
\* str.lower() of one ASCII character.
lower(c) ==
    IF is_upper(c)
    THEN LowerCase[CHOOSE i \in 1..Len(UpperCase) : UpperCase[i] = c]
    ELSE c

\* What inflection.underscore makes of the character at position i. An
\* underscore goes before an upper-case letter that follows a lower-case
\* letter or a digit (the substitution of ([a-z\d])([A-Z])), and before the
\* last letter of an upper-case run that a lower-case letter follows (the
\* substitution of ([A-Z]+)([A-Z][a-z])); a hyphen becomes an underscore
\* and the result is lower-cased.
underscore_at(word, i) ==
    LET c == word[i]
        after_lower == is_lower(word[i - 1]) \/ word[i - 1] \in Digits
        ends_run == /\ is_upper(word[i - 1])
                    /\ i < Len(word)
                    /\ is_lower(word[i + 1])
    IN (IF i > 1 /\ is_upper(c) /\ (after_lower \/ ends_run)
        THEN <<"_">> ELSE <<>>)
       \o <<IF c = "-" THEN "_" ELSE lower(c)>>

RECURSIVE underscore_from(_, _)
underscore_from(word, i) ==
    IF i > Len(word) THEN <<>>
    ELSE underscore_at(word, i) \o underscore_from(word, i + 1)

\* inflection.underscore(word), on the characters of the word.
underscore(word) == underscore_from(word, 1)

\* The type_def of discover_streams.
TypeDef(q, gql_type, pk, rk) ==
    [name |-> Text(underscore(q.spelling)), query_name |-> q.name,
     gql_type |-> gql_type,
     primary_keys |-> pk, replication_key |-> rk]

\* The type_dict of the singer_sdk JSON types the resolver uses.
StringType == Dict(<<KV("type", List(<<"string">>))>>)
BooleanType == Dict(<<KV("type", List(<<"boolean">>))>>)
NumberType == Dict(<<KV("type", List(<<"number">>))>>)
IntegerType == Dict(<<KV("type", List(<<"integer">>))>>)
DateTimeType ==
    Dict(<<KV("type", List(<<"string">>)), KV("format", Str("date-time"))>>)
ArrayType(items) == Dict(<<KV("type", Str("array")), KV("items", items)>>)

\* An optional property's type also allows null.
append_null(type_dict) ==
    Dict([i \in 1..Len(type_dict.e) |->
            IF type_dict.e[i].k # "type" THEN type_dict.e[i]
            ELSE IF type_dict.e[i].v.t = "str"
            THEN KV("type", List(<<type_dict.e[i].v.s, "null">>))
            ELSE KV("type", List(type_dict.e[i].v.l \o <<"null">>))])

\* th.Property(name, type, required=required)
Property(name, type, required) ==
    [name |-> name, type |-> type, required |-> required]

\* th.ObjectType(*properties).type_dict: the required entry lists the
\* required properties and is left out when there is none.
ObjectType(properties) ==
    LET required == SelectSeq(properties, LAMBDA prop : prop.required) IN
    Dict(<<KV("type", Str("object")),
           KV("properties",
              Dict([i \in 1..Len(properties) |->
                      KV(properties[i].name,
                         IF properties[i].required THEN properties[i].type
                         ELSE append_null(properties[i].type))]))>>
         \o (IF required = <<>> THEN <<>>
             ELSE <<KV("required",
                       List([i \in 1..Len(required) |-> required[i].name]))>>))

\* type_mapping.get(name, th.StringType)
type_mapping(name) ==
    IF name = "Boolean" THEN BooleanType
    ELSE IF name = "DateTime" THEN DateTimeType
    ELSE IF name = "Float" THEN NumberType
    ELSE IF name = "Int" THEN IntegerType
    ELSE StringType

\* th.ObjectType(th.Property("id", th.StringType, required=True))
EntityReference == ObjectType(<<Property("id", StringType, TRUE)>>)

\* The result of extract_field_type: a type, None, the exception it raises,
\* or - where the code calls get_fields_schema for the fields of an object
\* type - the name of the type to expand and the number of arrays its result
\* is to be put in. objs is the visited list after the call.
Resolved(type, arrays, visited) ==
    [outcome |-> "value", type |-> type, arrays |-> arrays, expand |-> Null,
     objs |-> visited]
Unresolved(visited) ==
    [outcome |-> "none", type |-> Dict(<<>>), arrays |-> 0, expand |-> Null,
     objs |-> visited]
RaisedTypeError(visited) ==
    [outcome |-> "raised", type |-> Dict(<<>>), arrays |-> 0, expand |-> Null,
     objs |-> visited]
Expand(name, arrays, visited) ==
    [outcome |-> "expand", type |-> Dict(<<>>), arrays |-> arrays,
     expand |-> name, objs |-> visited]

\* verify_recursion: `field_name not in objs` fails.
is_visited(name, visited) == InList(name, visited)

\* A mutant of objs_at_call: the visited list is never cleared.
objs_never_cleared(depth, visited) == visited

\* verify_recursion: objs.clear() when no call of extract_field_type is on
\* the stack, which is when get_fields_schema was called by the schema
\* property (depth 1) and not by extract_field_type.
objs_at_call(depth, visited) == IF depth = 1 THEN <<>> ELSE visited

RECURSIVE extract_field_type(_, _, _, _)
\* extract_field_type(field) under verify_recursion, with the visited list
\* objs and the registered entity types; arrays counts the LIST kinds passed
\* on the way. The LIST branch passes on field["ofType"]["ofType"], which is
\* None when the list's element is a named type: verify_recursion then
\* raises TypeError at args[1]["name"].
extract_field_type(field, visited, registered, arrays) ==
    IF field = NoType THEN RaisedTypeError(visited)
    ELSE IF is_visited(field.name, visited) THEN Unresolved(visited)
    ELSE
      LET objs2 == IF field.kind = "OBJECT" THEN Append(visited, field.name)
                   ELSE visited
      IN
      IF field.kind = "OBJECT"
      THEN IF InList(field.name, registered)
           THEN Resolved(EntityReference, arrays, objs2)
           ELSE Expand(field.name, arrays, objs2)
      ELSE IF field.kind = "LIST"
      THEN extract_field_type(field.ofType.ofType, objs2, registered, arrays + 1)
      ELSE IF field.kind = "ENUM" THEN Resolved(StringType, arrays, objs2)
      ELSE IF field.kind = "NON_NULL"
      THEN extract_field_type(field.ofType, objs2, registered, arrays)
      ELSE IF field.kind = "SCALAR"
      THEN Resolved(type_mapping(field.name), arrays, objs2)
      ELSE Unresolved(objs2)

RECURSIVE in_arrays(_, _)
\* th.ArrayType(list_field_type), once for each LIST kind passed.
in_arrays(type, arrays) ==
    IF arrays = 0 THEN type ELSE in_arrays(ArrayType(type), arrays - 1)

\* A mutant of object_type: an object without properties is kept.
object_type_keeps_empty(properties) ==
    [outcome |-> "value", type |-> ObjectType(properties)]

\* `if properties: return th.ObjectType(*properties)`, None otherwise.
object_type(properties) ==
    IF properties # <<>>
    THEN [outcome |-> "value", type |-> ObjectType(properties)]
    ELSE [outcome |-> "none", type |-> Dict(<<>>)]

\* The filters of get_fields_schema: whether a field is skipped before its
\* type is looked at.
skip_field(field, ignore_deprecated) ==
    \/ field.isDeprecated /\ ignore_deprecated
    \/ field.args # <<>>
    \/ field.type.kind = "INTERFACE"

\* type_def = field.get("type", field); type_def = type_def["ofType"] or type_def
unwrap_once(type) == IF type.ofType # NoType THEN type.ofType ELSE type

\* properties_dict of the schema property: the orders entity gets a
\* lineItems property.
stream_schema(name, properties) ==
    LET properties_dict == ObjectType(properties) IN
    IF name # "orders" THEN properties_dict
    ELSE Dict([i \in 1..Len(properties_dict.e) |->
                 IF properties_dict.e[i].k # "properties" THEN properties_dict.e[i]
                 ELSE KV("properties",
                         Dict(SelectSeq(properties_dict.e[i].v.e,
                                        LAMBDA en : en.k # "lineItems")
                              \o <<KV("lineItems",
                                      Dict(<<KV("type",
                                                List(<<"object", "null">>))>>))>>))])

\* Deepest nesting of get_fields_schema calls the resolver is followed to.
MaxDepth == 8

\* One call of get_fields_schema: the type whose fields it loops over, the
\* index of the next field, the properties collected so far, and - for a
\* call made by extract_field_type - the field of the caller the result is
\* for, whether that field is required and the arrays the result goes in.
FieldsFrame(type, field, required, arrays) ==
    [type |-> type, i |-> 1, properties |-> <<>>, field |-> field,
     required |-> required, arrays |-> arrays]

RTop == rstack[Len(rstack)]
RBelow == SubSeq(rstack, 1, Len(rstack) - 1)

NoField ==
    [type |-> Null, field |-> Null, target |-> NoType, outcome |-> "start",
     visited |-> <<>>, depth |-> 0]

DiscStart ==
    /\ dpc = "discover"
    /\ schema_gql \in TypeGraphs
    /\ disc_config \in [ignore_access_denied : BOOLEAN, ignore_deprecated : BOOLEAN]
    /\ qi = 1
    /\ gql_types_in_schema = <<>>
    /\ streams = <<>>
    /\ si = 1
    /\ rstack = <<>>
    /\ objs = <<>>
    /\ nested_connections = <<>>
    /\ schemas = <<>>
    /\ expanded = <<>>
    /\ last_field = NoField

\* One iteration of the first loop of discover_streams: a query without
\* nodes field or whose record type has no primary key is passed over, the
\* others are registered and described.
discover_query ==
    /\ dpc = "discover"
    /\ LET q == queries_gql[qi]
           fields_def == get_type_fields(schema_gql, q.nodes)
           pk == primary_key_fields(fields_def)
           rk == replication_key_field(fields_def)
           found == q.nodes # Null /\ has_primary_key(pk)
       IN
       /\ gql_types_in_schema' =
            IF found THEN Append(gql_types_in_schema, q.nodes)
            ELSE gql_types_in_schema
       /\ streams' = IF found THEN Append(streams, TypeDef(q, q.nodes, pk, rk))
                     ELSE streams
       /\ qi' = qi + 1
       /\ dpc' = IF qi < Len(queries_gql) THEN "discover"
                 ELSE IF streams' = <<>> THEN "done"
                 ELSE "yield"
    /\ UNCHANGED <<schema_gql, disc_config, si, rstack, objs, nested_connections,
                   schemas, expanded, last_field>>
    /\ UNCHANGED other_than_disc

\* One iteration of the second loop of discover_streams: the stream is
\* instantiated and its schema property starts get_fields_schema on the
\* fields of its record type.
stream_yield ==
    /\ dpc = "yield"
    /\ rstack' = <<FieldsFrame(streams[si].gql_type, Null, FALSE, 0)>>
    /\ expanded' = <<>>
    /\ dpc' = "resolve"
    /\ UNCHANGED <<schema_gql, disc_config, qi, gql_types_in_schema, streams, si,
                   objs, nested_connections, schemas, last_field>>
    /\ UNCHANGED other_than_disc

\* One iteration of the loop of get_fields_schema, with the call of
\* extract_field_type it makes. verify_recursion clears the visited list
\* when no extract_field_type call is active, which is when the loop is the
\* one the schema property started. An exception of extract_field_type is
\* caught nowhere: it leaves every get_fields_schema call, the schema
\* property and discover_streams, and no further schema is produced.
resolve_field ==
    /\ dpc = "resolve"
    /\ RTop.i <= Len(schema_gql[RTop.type])
    /\ LET field == schema_gql[RTop.type][RTop.i]
           skipped == skip_field(field, disc_config.ignore_deprecated)
           deprecated == field.isDeprecated /\ disc_config.ignore_deprecated
           required == /\ field.type.kind = "NON_NULL"
                       /\ ~disc_config.ignore_access_denied
           type_def == unwrap_once(field.type)
           visited == objs_at_call(Len(rstack), objs)
           r == extract_field_type(type_def, visited, gql_types_in_schema, 0)
           next == [RTop EXCEPT !.i = @ + 1]
       IN
       IF skipped
       THEN /\ nested_connections' =
                 IF ~deprecated /\ field.args # <<>> /\ field.args[1] = "first"
                 THEN Append(nested_connections, field.name)
                 ELSE nested_connections
            /\ rstack' = RBelow \o <<next>>
            /\ last_field' = [type |-> RTop.type, field |-> field.name,
                              target |-> type_def, outcome |-> "skip",
                              visited |-> objs, depth |-> Len(rstack)]
            /\ UNCHANGED <<objs, expanded, dpc>>
       ELSE /\ r.outcome = "expand" => Len(rstack) < MaxDepth
            /\ dpc' = IF r.outcome = "raised" THEN "raised" ELSE dpc
            /\ objs' = r.objs
            /\ nested_connections' = nested_connections
            /\ last_field' = [type |-> RTop.type, field |-> field.name,
                              target |-> type_def, outcome |-> r.outcome,
                              visited |-> visited, depth |-> Len(rstack)]
            /\ IF r.outcome = "raised"
               THEN /\ rstack' = <<>>
                    /\ expanded' = expanded
               ELSE IF r.outcome = "expand"
               THEN /\ rstack' = rstack \o
                         <<FieldsFrame(r.expand, field.name, required, r.arrays)>>
                    /\ expanded' = Append(expanded, r.expand)
               ELSE IF r.outcome = "value"
               THEN /\ rstack' = RBelow \o
                         <<[next EXCEPT !.properties =
                              Append(@, Property(field.name,
                                                 in_arrays(r.type, r.arrays),
                                                 required))]>>
                    /\ expanded' = expanded
               ELSE /\ rstack' = RBelow \o <<next>>
                    /\ expanded' = expanded
    /\ UNCHANGED <<schema_gql, disc_config, qi, gql_types_in_schema, streams, si,
                   schemas>>
    /\ UNCHANGED other_than_disc

\* The end of the loop of get_fields_schema: the properties go back to
\* extract_field_type, which makes an object type of them if there is any
\* and hands it to the loop that called it, or to the schema property, which
\* ends the resolution of the entity.
resolve_return ==
    /\ dpc = "resolve"
    /\ RTop.i > Len(schema_gql[RTop.type])
    /\ IF Len(rstack) = 1
       THEN /\ schemas' = Append(schemas,
                                 stream_schema(streams[si].name, RTop.properties))
            /\ rstack' = <<>>
            /\ si' = si + 1
            /\ dpc' = IF si < Len(streams) THEN "yield" ELSE "done"
            /\ last_field' = last_field
       ELSE LET r == object_type(RTop.properties)
                caller == RBelow[Len(RBelow)]
                next == [caller EXCEPT !.i = @ + 1]
            IN /\ rstack' = SubSeq(RBelow, 1, Len(RBelow) - 1) \o
                    <<IF r.outcome = "value"
                      THEN [next EXCEPT !.properties =
                              Append(@, Property(RTop.field,
                                                 in_arrays(r.type, RTop.arrays),
                                                 RTop.required))]
                      ELSE next>>
               /\ last_field' = [type |-> caller.type, field |-> RTop.field,
                                 target |-> Object(RTop.type),
                                 outcome |-> IF r.outcome = "value"
                                             THEN "expanded" ELSE "empty",
                                 visited |-> objs, depth |-> Len(RBelow)]
               /\ UNCHANGED <<schemas, si, dpc>>
    /\ UNCHANGED <<schema_gql, disc_config, qi, gql_types_in_schema, streams,
                   objs, nested_connections, expanded>>
    /\ UNCHANGED other_than_disc

NextDisc ==
    \/ discover_query
    \/ stream_yield
    \/ resolve_field
    \/ resolve_return

DiscIdle ==
    /\ dpc = "idle"
    /\ schema_gql = TypeGraph(Scalar("String"), "plain", TRUE, TRUE)
    /\ disc_config = [ignore_access_denied |-> TRUE, ignore_deprecated |-> TRUE]
    /\ qi = 1
    /\ gql_types_in_schema = <<>>
    /\ streams = <<>>
    /\ si = 1
    /\ rstack = <<>>
    /\ objs = <<>>
    /\ nested_connections = <<>>
    /\ schemas = <<>>
    /\ expanded = <<>>
    /\ last_field = NoField

(***************************************************************************)
(* Bulk job manager: client_bulk.py                                        *)
(***************************************************************************)

\* check_status(self, operation_id, sleep_time=10, timeout=1800)
sleep_time == 10
timeout == 1800

\* Longest time one status request is taken to last, in seconds.
MaxPollTime == 600
\* The clock value when the sync starts.
InitialClock == 7

SubmittedId == "gid://shopify/BulkOperation/1"
JobIds == {SubmittedId, "gid://shopify/BulkOperation/2"}
ResultUrl == "https://storage/result.jsonl"
Urls == {Null, ResultUrl}
Statuses == {"RUNNING", "COMPLETED", "FAILED"}
ObjectCounts == {"0", "7"}
ErrorCodes == {Null, "ACCESS_DENIED", "INTERNAL_SERVER_ERROR", "TIMEOUT"}

\* The values $.data.currentBulkOperation can take in a status response.
StatusResponses ==
    [id : JobIds, url : Urls, status : Statuses,
     objectCount : ObjectCounts, errorCode : ErrorCodes]

NoStatus ==
    [id |-> Null, url |-> Null, status |-> Null,
     objectCount |-> Null, errorCode |-> Null]

\* The result files a result URL can hold, as the rows of their lines.
ResultFiles == {<<>>, <<"row1">>, <<"row1", "row2">>}

Pending == [kind |-> "pending", value |-> Null]
Returned(v) == [kind |-> "return", value |-> v]
Raised(exc, msg) == [kind |-> exc, value |-> msg]

\* A mutant of check_status_body: the URL is looked at before the job id.
check_status_body_url_first(st, op) ==
    IF Truthy(st.url) THEN Returned(st.url)
    ELSE IF st.id # op THEN Raised("InvalidOperation", "not triggered by the process")
    ELSE IF st.status = "COMPLETED"
         THEN IF st.objectCount = "0" THEN Returned(Null)
              ELSE Raised("InvalidOperation", "no download url")
    ELSE IF st.status = "FAILED"
         THEN IF st.errorCode = "ACCESS_DENIED" THEN Returned(Null)
              ELSE IF st.errorCode = "INTERNAL_SERVER_ERROR" THEN Returned(Null)
              ELSE Raised("InvalidOperation", "Job failed")
    ELSE Pending

\* A mutant of check_status_body: a COMPLETED job without URL is always empty.
check_status_body_completed_empty(st, op) ==
    IF st.id # op THEN Raised("InvalidOperation", "not triggered by the process")
    ELSE IF Truthy(st.url) THEN Returned(st.url)
    ELSE IF st.status = "COMPLETED" THEN Returned(Null)
    ELSE IF st.status = "FAILED"
         THEN IF st.errorCode = "ACCESS_DENIED" THEN Returned(Null)
              ELSE IF st.errorCode = "INTERNAL_SERVER_ERROR" THEN Returned(Null)
              ELSE Raised("InvalidOperation", "Job failed")
    ELSE Pending

\* A mutant of check_status_body: only ACCESS_DENIED skips the entity.
check_status_body_one_code(st, op) ==
    IF st.id # op THEN Raised("InvalidOperation", "not triggered by the process")
    ELSE IF Truthy(st.url) THEN Returned(st.url)
    ELSE IF st.status = "COMPLETED"
         THEN IF st.objectCount = "0" THEN Returned(Null)
              ELSE Raised("InvalidOperation", "no download url")
    ELSE IF st.status = "FAILED"
         THEN IF st.errorCode = "ACCESS_DENIED" THEN Returned(Null)
              ELSE Raised("InvalidOperation", "Job failed")
    ELSE Pending

\* The body of one iteration of check_status's loop, from the status it
\* polled: what it returns or raises, or Pending when it goes on to sleep.
check_status_body(st, op) ==
    IF st.id # op THEN Raised("InvalidOperation", "not triggered by the process")
    ELSE IF Truthy(st.url) THEN Returned(st.url)
    ELSE IF st.status = "COMPLETED"
         THEN IF st.objectCount = "0" THEN Returned(Null)
              ELSE Raised("InvalidOperation", "no download url")
    ELSE IF st.status = "FAILED"
         THEN IF st.errorCode = "ACCESS_DENIED" THEN Returned(Null)
              ELSE IF st.errorCode = "INTERNAL_SERVER_ERROR" THEN Returned(Null)
              ELSE Raised("InvalidOperation", "Job failed")
    ELSE Pending

\* sleep(sleep_time) at the end of an iteration: the clock after it.
check_status_sleep(t) == t + sleep_time

\* A mutant of job_timeout: leaving the loop falls through and returns None.
job_timeout_returns_none == Returned(Null)

\* What check_status does once its loop condition fails.
job_timeout == Raised("OperationFailed", "Job Timeout")

\* The negation of the loop condition of check_status.
check_status_expired(t, s) == ~(t < (s + timeout))

BulkStart ==
    /\ bpc = "submitted"
    /\ operation_id = Null
    /\ now = InitialClock
    /\ start = 0
    /\ status = NoStatus
    /\ polls = 0
    /\ sleeps = 0
    /\ result = Pending
    /\ downloads = 0
    /\ rows = <<>>

\* parse_response, up to the call of check_status: the operation id is read
\* from the submission's response and check_status takes its start time.
bulk_parse_response ==
    /\ bpc = "submitted"
    /\ operation_id' = SubmittedId
    /\ start' = now
    /\ bpc' = "polling"
    /\ UNCHANGED <<now, status, polls, sleeps, result, downloads, rows>>
    /\ UNCHANGED other_than_bulk

\* One iteration of check_status's loop: poll, decide, and sleep when the
\* job is still running. On a return, parse_response goes on: no URL ends the
\* generator with no rows, a URL leads to the download.
check_status_poll ==
    /\ bpc = "polling"
    /\ ~check_status_expired(now, start)
    /\ \E st \in StatusResponses, d \in {0, MaxPollTime} :
         LET r == check_status_body(st, operation_id) IN
         /\ status' = st
         /\ polls' = polls + 1
         /\ result' = r
         /\ IF r = Pending
            THEN /\ now' = check_status_sleep(now + d)
                 /\ sleeps' = sleeps + 1
                 /\ bpc' = "polling"
            ELSE /\ now' = now + d
                 /\ sleeps' = sleeps
                 /\ bpc' = IF r.kind # "return" THEN "raised"
                           ELSE IF Truthy(r.value) THEN "download"
                           ELSE "done"
    /\ UNCHANGED <<operation_id, start, downloads, rows>>
    /\ UNCHANGED other_than_bulk

\* The loop condition of check_status fails: raise OperationFailed.
check_status_timeout ==
    /\ bpc = "polling"
    /\ check_status_expired(now, start)
    /\ result' = job_timeout
    /\ bpc' = IF job_timeout.kind # "return" THEN "raised" ELSE "done"
    /\ UNCHANGED <<operation_id, now, start, status, polls, sleeps, downloads, rows>>
    /\ UNCHANGED other_than_bulk

\* parse_response after check_status returned a URL: get the file and yield
\* one row per line.
bulk_download ==
    /\ bpc = "download"
    /\ \E file \in ResultFiles :
         /\ downloads' = downloads + 1
         /\ rows' = rows \o file
    /\ bpc' = "done"
    /\ UNCHANGED <<operation_id, now, start, status, polls, sleeps, result>>
    /\ UNCHANGED other_than_bulk

NextBulk ==
    \/ bulk_parse_response
    \/ check_status_poll
    \/ check_status_timeout
    \/ bulk_download

BulkIdle ==
    /\ bpc = "idle"
    /\ operation_id = Null
    /\ now = InitialClock
    /\ start = 0
    /\ status = NoStatus
    /\ polls = 0
    /\ sleeps = 0
    /\ result = Pending
    /\ downloads = 0
    /\ rows = <<>>

(***************************************************************************)
(* The bulk query builder: client_bulk.py, client.py                       *)
(***************************************************************************)

\* A string built from parts is the sequence of its parts.

\* What get_starting_timestamp returns: a datetime, or None.
NoTimestamp == [date |-> Null, time |-> Null, microsecond |-> 0]
Timestamp(date, time, microsecond) ==
    [date |-> date, time |-> time, microsecond |-> microsecond]
StartingTimestamps ==
    {NoTimestamp,
     Timestamp("2024-01-01", "00:00:00", 0),
     Timestamp("2024-01-01", "00:00:00", 500000),
     Timestamp("2024-06-30", "23:59:59", 999999)}

\* start_date.strftime("%Y-%m-%dT%H:%M:%S"): the microseconds are not printed.
strftime(ts) == <<ts.date, "T", ts.time>>

\* The attributes of a stream that the builder reads: its name, its root
\* query's name and argument names, its replication key, the starting
\* timestamp and the selected properties.
BulkStream(name, root, rk, ts, selected) ==
    [name |-> name, query_name |-> root,
     replication_key |-> rk, starting_timestamp |-> ts, selected |-> selected]
NoStream == BulkStream(Null, Null, Null, NoTimestamp, <<>>)

\* The root query fields the queries introspection lists for the builder's
\* streams: one with the includeClosed argument, one named shop that takes
\* a page size and a filter, and one that takes neither.
RootQueries ==
    <<Query(<<"c", "u", "s", "t", "o", "m", "e", "r", "s">>,
            <<"first", "after", "query">>, "Customer"),
      Query(<<"f", "u", "l", "f", "i", "l", "l", "m", "e", "n", "t", "O", "r", "d", "e", "r", "s">>,
            <<"first", "query", "includeClosed">>,
            "FulfillmentOrder"),
      Query(<<"s", "h", "o", "p">>, <<"first", "query">>, "Shop"),
      Query(<<"n", "o", "d", "e">>, <<"id">>, Null)>>

\* self._tap.queries_gql: the root queries that pass filter_queries. Every
\* stream is discovered from one of them.
root_queries_gql == SelectSeq(RootQueries, filter_queries)

ReplicationKeys == {Null, "updatedAt", "createdAt"}
BulkStreams ==
    {BulkStream(Text(underscore(root_queries_gql[i].spelling)),
               root_queries_gql[i].name,
                rk, ts, selected_properties(CustomersSchema, selection, rk)) :
        i \in 1..Len(root_queries_gql), rk \in ReplicationKeys,
        ts \in StartingTimestamps, selection \in SUBSET Selection}

\* The value a property returns, or the exception it raises.
Value(v) == [raised |-> Null, value |-> v]
Raises(exception) == [raised |-> exception, value |-> <<>>]

\* additional_arguments: the root query is looked up by name in queries_gql,
\* next(...) raising StopIteration when it is not there, and the static
\* argument is returned when the query takes includeClosed.
additional_arguments(root) ==
    LET found == SelectSeq(root_queries_gql, LAMBDA q : q.name = root) IN
    IF found = <<>> THEN Raises("StopIteration")
    ELSE IF InList("includeClosed", found[1].args)
    THEN Value(<<<<"includeClosed: true">>>>)
    ELSE Value(<<>>)

RECURSIVE join(_, _)
\* separator.join(strings)
join(separator, strings) ==
    IF strings = <<>> THEN <<>>
    ELSE IF Len(strings) = 1 THEN strings[1]
    ELSE strings[1] \o <<separator>> \o join(separator, Tail(strings))

\* f'query: "updated_at:>{date}"'
incremental_filter(ts) == <<"query: \"updated_at:>">> \o strftime(ts) \o <<"\"">>

\* The filters property: the static arguments, then the incremental filter
\* of a stream with a replication key and a starting timestamp, joined by
\* commas.
filters(s) ==
    LET static == additional_arguments(s.query_name)
        all == IF s.replication_key # Null /\ s.starting_timestamp # NoTimestamp
               THEN Append(static.value,
                           incremental_filter(s.starting_timestamp))
               ELSE static.value
    IN IF static.raised # Null THEN static ELSE Value(join(",", all))

\* A mutant of replace_filters: the parentheses are always written.
replace_filters_always_parens(text) == <<"(">> \o text \o <<")">>

\* What replaces __filters__ in the template.
replace_filters(text) ==
    IF text # <<>> THEN <<"(">> \o text \o <<")">> ELSE <<>>

NoDocument ==
    [base_query |-> Null, query_name |-> Null, selected_fields |-> <<>>,
     filters |-> <<>>]

\* shopifyBulkStream.query: the template it starts from and what replaces
\* __query_name__, __selected_fields__ and __filters__ in it, or the
\* exception that reading self.filters raises.
query_bulk(s, sch) ==
    LET text == filters(s) IN
    IF text.raised # Null THEN [raised |-> text.raised, value |-> NoDocument]
    ELSE Value(
        [base_query |-> IF s.name = "shop" THEN "simple_query" ELSE "bulk_query",
         query_name |-> s.query_name,
         selected_fields |-> gql_selected_fields(sch, s.selected),
         filters |-> replace_filters(text.value)])

QueryStart ==
    /\ qpc = "build"
    /\ bstream \in BulkStreams
    /\ document = NoDocument

\* One call of shopifyBulkStream.query.
build_query ==
    /\ qpc = "build"
    /\ LET r == query_bulk(bstream, CustomersSchema) IN
       IF r.raised # Null
       THEN /\ qpc' = "raised"
            /\ document' = document
       ELSE /\ qpc' = "built"
            /\ document' = r.value
    /\ UNCHANGED bstream
    /\ UNCHANGED other_than_query

NextQuery == build_query

QueryIdle ==
    /\ qpc = "idle"
    /\ bstream = NoStream
    /\ document = NoDocument

(***************************************************************************)
(* One sync of a stream in either mode: tap.py, client.py                  *)
(***************************************************************************)

\* The "bulk" entry of the config: absent, false or true.
ConfigEntry(present, value) == [present |-> present, value |-> value]
ConfigBulk ==
    {ConfigEntry(FALSE, FALSE), ConfigEntry(TRUE, FALSE), ConfigEntry(TRUE, TRUE)}

\* A mutant of bulk_mode: the bulk setting is ignored.
bulk_mode_never(entry) == FALSE

\* if self.config.get("bulk")
bulk_mode(entry) == entry.present /\ entry.value

\* get_new_paginator: the paginator class request_records loops with.
get_new_paginator(entry) ==
    IF bulk_mode(entry) THEN "SinglePagePaginator" ELSE "ShopifyPaginator"

\* ShopifyStream.parse_response and ShopifyStream.query: the class whose
\* method is called.
mode_class(entry) ==
    IF bulk_mode(entry) THEN "shopifyBulkStream" ELSE "shopifyGqlStream"

\* The stream that is synced: customers, with a replication key and a start
\* date.
CustomersStream ==
    BulkStream("customers", query_name, replication_key,
               Timestamp("2024-01-01", "00:00:00", 0), SelectedProperties)

SyncStart ==
    /\ spc = "start"
    /\ config_bulk \in ConfigBulk
    /\ submissions = 0

\* request_records(context) is called. With the ShopifyPaginator the
\* interactive loop starts. With the SinglePagePaginator the one request is
\* prepared (prepare_request_payload reads self.query and saves the
\* context) and sent, and the bulk parse_response is handed its response.
sync_request_records ==
    /\ spc = "start"
    /\ \E context \in Contexts :
         IF get_new_paginator(config_bulk) = "ShopifyPaginator"
         THEN /\ spc' = "running"
              /\ gpc' = "request"
              /\ stack' = <<Frame(new_paginator, context)>>
              /\ UNCHANGED <<stream_query_name, schema, query_cache,
                             saved_context, ignore_access_denied, yielded,
                             nrequests, gexc, pruned, event>>
              /\ UNCHANGED <<bulk_vars, submissions>>
         ELSE LET built ==
                    IF query_cache.cached THEN Value(query_cache.value)
                    ELSE IF mode_class(config_bulk) = "shopifyBulkStream"
                         THEN query_bulk(CustomersStream, schema)
                         ELSE Value(query(schema, SelectedProperties))
              IN IF built.raised # Null
                 THEN /\ spc' = "raised"
                      /\ UNCHANGED <<bulk_vars, gql_vars, submissions>>
                 ELSE /\ spc' = "running"
                      /\ query_cache' = Cached(built.value)
                      /\ saved_context' = context
                      /\ submissions' = submissions + 1
                      /\ bpc' = "submitted"
                      /\ UNCHANGED <<operation_id, now, start, status, polls,
                                     sleeps, result, downloads, rows>>
                      /\ UNCHANGED <<gpc, stream_query_name, stack, schema,
                                     ignore_access_denied, yielded, nrequests,
                                     gexc, pruned, event>>
    /\ UNCHANGED config_bulk
    /\ UNCHANGED other_than_sync

\* request_records ends: the interactive loop has ended or raised, or the
\* bulk parse_response has ended or raised; SinglePagePaginator.advance
\* finishes the paginator after its one response.
sync_end ==
    /\ spc = "running"
    /\ IF get_new_paginator(config_bulk) = "ShopifyPaginator"
       THEN /\ gpc \in {"done", "raised"}
            /\ spc' = gpc
       ELSE /\ bpc \in {"done", "raised"}
            /\ spc' = bpc
    /\ UNCHANGED <<config_bulk, submissions>>
    /\ UNCHANGED <<bulk_vars, gql_vars>>
    /\ UNCHANGED other_than_sync

NextSync ==
    \/ sync_request_records
    \/ sync_end
    \/ NextBulk
    \/ NextGql

SyncIdle ==
    /\ spc = "idle"
    /\ config_bulk = ConfigEntry(FALSE, FALSE)
    /\ submissions = 0

InitBulk == BulkStart /\ PagIdle /\ GqlIdle /\ DiscIdle /\ QueryIdle /\ SyncIdle

SpecBulk == InitBulk /\ [][NextBulk]_vars

InitPag == PagStart /\ BulkIdle /\ GqlIdle /\ DiscIdle /\ QueryIdle /\ SyncIdle

SpecPag == InitPag /\ [][NextPag]_vars

\* The request loop with a caller that may read current_value again.
NextReread == NextPag \/ pag_read_again

SpecReread == InitPag /\ [][NextReread]_vars

InitGql == GqlStart /\ BulkIdle /\ PagIdle /\ DiscIdle /\ QueryIdle /\ SyncIdle

SpecGql == InitGql /\ [][NextGql]_vars

InitOrders ==
    OrdersStart /\ BulkIdle /\ PagIdle /\ DiscIdle /\ QueryIdle /\ SyncIdle

SpecOrders == InitOrders /\ [][NextGql]_vars

InitDisc == DiscStart /\ BulkIdle /\ PagIdle /\ GqlIdle /\ QueryIdle /\ SyncIdle

SpecDisc == InitDisc /\ [][NextDisc]_vars

InitQuery ==
    QueryStart /\ BulkIdle /\ PagIdle /\ GqlIdle /\ DiscIdle /\ SyncIdle

SpecQuery == InitQuery /\ [][NextQuery]_vars

InitSync ==
    SyncStart /\ BulkIdle /\ PagIdle /\ GqlIdle /\ DiscIdle /\ QueryIdle

SpecSync == InitSync /\ [][NextSync]_vars

\* The poll loop is single-threaded and runs on: a step that can be taken is
\* taken.
SpecBulkFair == SpecBulk /\ WF_vars(NextBulk)

BulkEnded == bpc \in {"done", "raised"}
Polled == polls > 0
Fatal == bpc = "raised" /\ result.kind \in {"InvalidOperation", "OperationFailed"}
EmptyResult ==
    /\ bpc = "done"
    /\ result = Returned(Null)
    /\ rows = <<>>
    /\ downloads = 0

(***************************************************************************)
(* Claims about the bulk poll loop                                         *)
(***************************************************************************)

IdMismatch == Polled /\ status.id # operation_id
NoUrl == ~Truthy(status.url)

\* C1: on every poll, a status response whose job id differs from the
\* submitted operation id ends polling at once with a fatal InvalidOperation,
\* whatever its URL, status and error code are: no sleep follows the poll,
\* nothing is downloaded and no row is yielded.
C1_IdMismatchFatal ==
    IdMismatch =>
        /\ bpc = "raised"
        /\ result = Raised("InvalidOperation", "not triggered by the process")
        /\ sleeps = polls - 1
        /\ downloads = 0
        /\ rows = <<>>

\* C1 witness: a mismatching response that carries a result URL and reports
\* COMPLETED has been polled.
C1_Witness ==
    /\ IdMismatch
    /\ Truthy(status.url)
    /\ status.status = "COMPLETED"
    /\ bpc = "raised"

\* C2: a poll with the submitted id reporting COMPLETED, objectCount "0" and
\* no URL ends with an empty result (zero rows, no download, no error); a poll
\* reporting COMPLETED with a nonzero objectCount and no URL ends fatally.
C2_CompletedWithoutUrl ==
    /\ (/\ Polled
        /\ status.id = operation_id
        /\ status.status = "COMPLETED"
        /\ status.objectCount = "0"
        /\ NoUrl) => EmptyResult
    /\ (/\ Polled
        /\ status.status = "COMPLETED"
        /\ status.objectCount # "0"
        /\ NoUrl) => (Fatal /\ result.kind = "InvalidOperation" /\ downloads = 0)

\* C2 witness: the submitted job was polled as COMPLETED with objectCount "0"
\* and no URL, and the generator ended.
C2_Witness ==
    /\ Polled
    /\ status.id = operation_id
    /\ status.status = "COMPLETED"
    /\ status.objectCount = "0"
    /\ NoUrl
    /\ bpc = "done"

SkippedCodes == {"ACCESS_DENIED", "INTERNAL_SERVER_ERROR"}

\* C3 as stated: any poll reporting FAILED with ACCESS_DENIED or
\* INTERNAL_SERVER_ERROR ends with an empty result, and any poll reporting
\* FAILED with another code ends fatally.
C3_AsStated ==
    /\ (/\ Polled
        /\ status.status = "FAILED"
        /\ status.errorCode \in SkippedCodes) => EmptyResult
    /\ (/\ Polled
        /\ status.status = "FAILED"
        /\ status.errorCode \notin SkippedCodes) => Fatal

\* C3 amended: a poll with the submitted job id and no URL that reports
\* FAILED with ACCESS_DENIED or INTERNAL_SERVER_ERROR ends with an empty
\* result (zero rows, no error, no download); with any other error code it
\* ends with a fatal InvalidOperation.
C3_FailedWithoutUrl ==
    /\ (/\ Polled
        /\ status.id = operation_id
        /\ NoUrl
        /\ status.status = "FAILED"
        /\ status.errorCode \in SkippedCodes) => EmptyResult
    /\ (/\ Polled
        /\ status.id = operation_id
        /\ NoUrl
        /\ status.status = "FAILED"
        /\ status.errorCode \notin SkippedCodes) =>
            (Fatal /\ result.kind = "InvalidOperation" /\ downloads = 0)

\* C3 witness: the submitted job was polled as FAILED with
\* INTERNAL_SERVER_ERROR and no URL, and the generator ended.
C3_Witness ==
    /\ Polled
    /\ status.id = operation_id
    /\ NoUrl
    /\ status.status = "FAILED"
    /\ status.errorCode = "INTERNAL_SERVER_ERROR"
    /\ bpc = "done"

\* The last response left the job running: submitted id, no URL, a status
\* that is neither COMPLETED nor FAILED.
StillRunning ==
    /\ Polled
    /\ status.id = operation_id
    /\ NoUrl
    /\ status.status \notin {"COMPLETED", "FAILED"}

CheckStatusEnded == bpc \in {"download", "done", "raised"}
UrlOutcome == result.kind = "return" /\ Truthy(result.value)
EmptyOutcome == result = Returned(Null)
FatalOutcome == result.kind \in {"InvalidOperation", "OperationFailed"}
TimedOut == result = Raised("OperationFailed", "Job Timeout")

C4_Outcomes ==
    /\ CheckStatusEnded =>
        /\ UrlOutcome \/ EmptyOutcome \/ FatalOutcome
        /\ ~(UrlOutcome /\ EmptyOutcome)
        /\ ~(UrlOutcome /\ FatalOutcome)
        /\ ~(EmptyOutcome /\ FatalOutcome)
    /\ ~CheckStatusEnded => result = Pending

C4_KeepsPolling ==
    /\ StillRunning =>
        /\ sleeps = polls
        /\ now >= start + (sleeps * sleep_time)
        /\ (bpc = "polling" /\ result = Pending) \/ (bpc = "raised" /\ TimedOut)
    /\ bpc = "polling" => sleeps = polls
    /\ CheckStatusEnded /\ ~TimedOut => sleeps = polls - 1

C4_TimeoutIsFatal ==
    /\ TimedOut =>
        /\ bpc = "raised"
        /\ now >= start + timeout
        /\ Polled => StillRunning
        /\ downloads = 0
        /\ rows = <<>>
    /\ (CheckStatusEnded /\ ~TimedOut) => Polled

\* Once the timeout has elapsed with the loop still running, the next step
\* raises the timeout error: no further poll is made.
C4_ExpiredStep ==
    (bpc = "polling" /\ now >= start + timeout) => (TimedOut' /\ polls' = polls)

\* C4: the poll loop always terminates, in exactly one of a result URL, an
\* empty result and a fatal error. While the responses carry the submitted id,
\* no URL and a status that is neither COMPLETED nor FAILED it keeps polling
\* with one sleep of sleep_time between polls; once the timeout has elapsed
\* without a terminal response it raises the fatal timeout error.
C4_PollLoopTerminates ==
    /\ [](C4_Outcomes /\ C4_KeepsPolling /\ C4_TimeoutIsFatal)
    /\ [][C4_ExpiredStep]_vars
    /\ <>BulkEnded

\* C4 witness: the loop ran until the timeout and raised, every poll having
\* found the job still running.
C4_Witness ==
    /\ TimedOut
    /\ StillRunning
    /\ polls > 1
    /\ sleeps = polls

(***************************************************************************)
(* Claims about the paginator                                              *)
(***************************************************************************)

\* A request was just sent with the page size computed from the cost data of
\* the response before it.
ReadWithCostData ==
    /\ ppc = "response"
    /\ pag._page_count > 0
    /\ pag._query_cost # NoneNum

\* floor(costCap / (lastCost / lastPageSize)), capped at 250 and floored at 1.
SpecPageSize(cost, size) ==
    Max(1, Min(max_page_size, (_single_query_max_cost_limt * size) \div cost))

\* C5: after successful responses (whose cost data page_size uses: a nonzero
\* cost and a nonzero available budget), the page size requested next equals
\* floor(costCap / (lastCost / lastPageSize)) capped at 250 and floored at 1,
\* and so lies in 1..250 whatever cost the server reported.
C5_PageSizeFormula ==
    (ReadWithCostData /\ TruthyNum(pag._query_cost)
                      /\ TruthyNum(pag._available_points)) =>
        /\ requested.first = SpecPageSize(pag._query_cost, last_page_size)
        /\ requested.first \in 1..max_page_size

\* The paginator's stored cost state.
CostState(p) ==
    <<p._query_cost, p._available_points, p._restore_rate, p._max_points>>

\* C11: when the response handed to the paginator has a top-level errors
\* entry, the paginator reports no next page without raising: it is finished
\* and its loop is over, its stored cost state (last cost, available budget,
\* restore rate, ceiling) is as it was before that response, and a finished
\* loop takes no further step.
C11_ErrorsEndPagination ==
    [][/\ ppc # "done"
       /\ (ppc = "response" /\ page_response'.errors) =>
              /\ ppc' = "done"
              /\ pag'._finished
              /\ CostState(pag') = CostState(pag)]_vars

\* C11 witness: the second response carried errors and the loop ended with
\* the cost state of the first response.
C11_Witness ==
    /\ ppc = "done"
    /\ page_response.errors
    /\ pag._page_count = 2
    /\ pag._query_cost = 200
    /\ pag._available_points = 100

\* The reserve max(ceiling / 4, 2 x costCap) of the paginator's cost data.
Reserve == Max(pag._max_points \div 4, 2 * _single_query_max_cost_limt)

\* C6: whenever cost data from a previous response exists, a page_size read
\* blocks ceil((reserve - available) / restoreRate) seconds for every
\* available value below the reserve, 0 included, and does not block when
\* available >= reserve.
C6_BackpressureSleep ==
    ReadWithCostData =>
        IF pag._available_points < Reserve
        THEN slept = CeilDiv(Reserve - pag._available_points, pag._restore_rate)
        ELSE slept = 0

(***************************************************************************)
(* Claims about the interactive error recovery                             *)
(***************************************************************************)

\* parse_response has just been handed the response of the innermost
\* request loop, and that response carries errors.
ErrorResponseArrived ==
    /\ gpc = "parse"
    /\ Top.idx = 1
    /\ Top.resp.errors # <<>>

\* C7: after a field-scoped error below the top level is pruned, the first
\* request of the replay carries the same cursor and the same context as the
\* request whose response contained the error.
C7_ReplaySameRequest ==
    \A i \in 2..Len(stack) :
        (stack[i].req # NoGqlRequest /\ stack[i].pag._page_count = 0) =>
            /\ stack[i].req.variables.after = stack[i - 1].req.variables.after
            /\ stack[i].req.context = stack[i - 1].req.context

RECURSIVE Mentions(_, _)
\* The name is a key of the schema at some depth, or an entry of one of its
\* required lists.
Mentions(d, name) ==
    /\ IsDict(d)
    /\ \E i \in 1..Len(d.e) :
         \/ d.e[i].k = name
         \/ d.e[i].k = "required" /\ d.e[i].v.t = "list" /\ InList(name, d.e[i].v.l)
         \/ Mentions(d.e[i].v, name)

RECURSIVE PropertyPaths(_, _)
\* The paths of the fields under a properties entry.
PropertyPaths(properties, parents) ==
    UNION {{parents \o <<properties.e[i].k>>}
           \cup (IF HasKey(properties.e[i].v, "properties")
                 THEN PropertyPaths(Get(properties.e[i].v, "properties"),
                                    parents \o <<properties.e[i].k>>)
                 ELSE {}) : i \in 1..Len(properties.e)}

\* The fields of a record schema.
SchemaFields(sch) == PropertyPaths(Get(sch, "properties"), <<>>)

\* The field names a query document mentions.
QueryNames(q) == {q.selected_fields[i] : i \in 1..Len(q.selected_fields)}

C8_PrunedStaysAbsent ==
    \A name \in pruned :
        /\ ~Mentions(schema, name)
        /\ query_cache.cached => name \notin QueryNames(query_cache.value)
        /\ event.kind = "request" => name \notin QueryNames(Top.req.query)

C8_OnlyShrinks ==
    /\ SchemaFields(schema') \subseteq SchemaFields(schema)
    /\ pruned \subseteq pruned'

\* C8: a field that error recovery has pruned is absent from the schema, from
\* every required list in it and from every query built afterwards; the set
\* of fields of the schema only ever shrinks, and pruning a further field
\* does not bring back one pruned before.
C8_PrunedNeverReappears ==
    /\ []C8_PrunedStaysAbsent
    /\ [][C8_OnlyShrinks]_vars

\* C8 witness: two fields were pruned, one of them out of a required list,
\* and a query built after that was sent.
C8_Witness ==
    /\ pruned = {"email", "id"}
    /\ event.kind = "request"
    /\ Top.req.query = query(schema, SelectedProperties)

\* An access-denied error whose path has length 1, or a
\* missing-required-arguments error.
AbandonError(error) ==
    \/ error.code = AccessDenied /\ Len(error.path) = 1
    \/ error.code = MissingRequiredArguments

\* The step handles the response without a row, a replay, an exception or a
\* change of the schema, and ends the request loop that received it.
AbandonStep ==
    /\ schema' = schema
    /\ pruned' = pruned
    /\ yielded' = yielded
    /\ nrequests' = nrequests
    /\ gpc' # "raised"
    /\ gexc' = gexc
    /\ Len(stack') = Len(stack) - 1
    /\ Len(stack) = 1 => gpc' = "done"

\* C9 as stated: with pruning enabled, a response containing an
\* access-denied error with a path of length 1, or a
\* missing-required-arguments error, is handled without rows, replay,
\* exception or schema change.
C9_AsStated ==
    [][(/\ ErrorResponseArrived
        /\ ignore_access_denied
        /\ \E i \in 1..Len(Top.resp.errors) : AbandonError(Top.resp.errors[i]))
       => AbandonStep]_vars

\* C9 amended: with pruning enabled, a response whose first error is an
\* access-denied error with a path of length 1, or a
\* missing-required-arguments error, ends the request loop that received it:
\* the response yields no row, no replay request is issued for it, no
\* exception is raised and the schema is left unchanged; when it is the
\* response to the sync's own request, the sync is over.
C9_FirstErrorAbandons ==
    [][(/\ ErrorResponseArrived
        /\ ignore_access_denied
        /\ AbandonError(Top.resp.errors[1]))
       => AbandonStep]_vars

\* C9 witness: the first response of the sync carried an access-denied error
\* on the connection, and the sync ended with no row and the schema as built.
C9_Witness ==
    /\ gpc = "done"
    /\ event = [kind |-> "return", error |-> Error(AccessDenied, TopPath),
                depth |-> 1]
    /\ nrequests = 1
    /\ yielded = <<>>
    /\ schema = CustomersSchema

\* The step raises, with no change of the schema and no replay.
FatalStep ==
    /\ gpc' = "raised"
    /\ gexc' # Null
    /\ schema' = schema
    /\ pruned' = pruned
    /\ yielded' = yielded
    /\ nrequests' = nrequests
    /\ stack' = stack

\* C10 as stated: a response with errors is fatal, with no schema mutation
\* and no replay, whenever pruning is disabled and whenever any error of the
\* response has no path, whatever its code.
C10_AsStated ==
    [][(/\ ErrorResponseArrived
        /\ \/ ~ignore_access_denied
           \/ \E i \in 1..Len(Top.resp.errors) : Top.resp.errors[i].path = <<>>)
       => FatalStep]_vars

\* C10 amended: a response with errors is fatal, with no schema mutation and
\* no replay, whenever pruning is disabled, and also whenever the first error
\* of the response has no path and is not a missing-required-arguments
\* error.
C10_FatalErrors ==
    [][(/\ ErrorResponseArrived
        /\ \/ ~ignore_access_denied
           \/ /\ Top.resp.errors[1].path = <<>>
              /\ Top.resp.errors[1].code # MissingRequiredArguments)
       => FatalStep]_vars

\* C10 witness: with pruning enabled, an error of an unknown code and without
\* a path was raised out of the first response.
C10_Witness ==
    /\ gpc = "raised"
    /\ gexc = "Exception"
    /\ ignore_access_denied
    /\ event = [kind |-> "raise", error |-> Error(OtherCode, <<>>), depth |-> 1]
    /\ nrequests = 1
    /\ schema = CustomersSchema

(***************************************************************************)
(* Claims about discovery and the type resolver                            *)
(***************************************************************************)

\* The first loop of discover_streams is over.
Discovered == dpc \in {"yield", "resolve", "done", "raised"}

\* The record type has a field whose type is the ID scalar, wrapped or not.
RECURSIVE Base(_)
Base(type) == IF type.ofType = NoType THEN type ELSE Base(type.ofType)
HasIdField(type) ==
    \E i \in 1..Len(schema_gql[type]) :
        Base(schema_gql[type][i].type) = Scalar("ID")

\* C12: discovery returns no entity with an empty primary-key set: a root
\* collection whose record type has no field of the ID scalar type is
\* dropped, and the record type of every entity is registered as a known
\* entity type before any schema is resolved.
C12_DiscoveredHavePrimaryKey ==
    /\ \A i \in 1..Len(streams) :
         /\ streams[i].primary_keys # <<>>
         /\ HasIdField(streams[i].gql_type)
         /\ InList(streams[i].gql_type, gql_types_in_schema)
    /\ Discovered =>
         \A j \in 1..Len(queries_gql) :
            (queries_gql[j].nodes # Null /\ ~HasIdField(queries_gql[j].nodes)) =>
                \A i \in 1..Len(streams) :
                    streams[i].query_name # queries_gql[j].name
    /\ (rstack # <<>> \/ schemas # <<>>) => Discovered

\* C12 witness: discovery is over, the collections of Customer and Order were
\* kept, those of Country (no ID field) and Product (nullable ID) dropped.
C12_Witness ==
    /\ dpc = "done"
    /\ [i \in 1..Len(streams) |-> streams[i].query_name] = <<"customers", "orders">>
    /\ Len(schemas) = 2

\* C13: resolving the schemas terminates with a finite schema for every type
\* graph, also with self-references and cycles through object types that
\* are not registered entities: the nesting of expansions stays within the
\* number of object types, and discovery ends in no other way than with a
\* schema for every discovered entity.
C13_ResolutionYieldsSchemas ==
    /\ Len(rstack) <= Cardinality(ObjectTypeNames) + 1
    /\ dpc \notin {"discover", "yield", "resolve"} =>
         dpc = "done" /\ Len(schemas) = Len(streams)

RECURSIVE Items(_)
\* The element type of an array type, at any nesting.
Items(type) == IF HasKey(type, "items") THEN Items(Get(type, "items")) ELSE type

\* The resolver has just handled a field whose underlying object type is a
\* registered entity type.
EntityFieldHandled ==
    /\ last_field.outcome \in {"value", "none", "expand"}
    /\ Base(last_field.target).kind = "OBJECT"
    /\ InList(Base(last_field.target).name, gql_types_in_schema)

\* C14: every field whose underlying object type is a registered entity type
\* resolves to an object with the identifier as its one property, however
\* many times and along whatever path that entity type is referenced.
C14_EntityReferences ==
    EntityFieldHandled =>
        /\ last_field.outcome = "value"
        /\ LET prop == RTop.properties[Len(RTop.properties)] IN
           /\ prop.name = last_field.field
           /\ Items(prop.type) = EntityReference

RECURSIVE HasRequired(_)
\* The schema has a non-empty required list at some depth.
HasRequired(d) ==
    /\ IsDict(d)
    /\ \E i \in 1..Len(d.e) :
         \/ d.e[i].k = "required" /\ d.e[i].v.t = "list" /\ d.e[i].v.l # <<>>
         \/ HasRequired(d.e[i].v)

\* C17: with ignore_access_denied enabled, the resolved schema marks no
\* field as required at any depth, entity references included.
C17_NothingRequired ==
    disc_config.ignore_access_denied =>
        \A i \in 1..Len(schemas) : ~HasRequired(schemas[i])

NoDuplicates(seq) ==
    \A i \in 1..Len(seq) : \A j \in 1..Len(seq) : seq[i] = seq[j] => i = j

\* The resolver has just called extract_field_type for a field.
FieldResolved == last_field.outcome \in {"value", "none", "expand"}

\* C18 as stated: within the resolution of one entity's schema each object
\* type is expanded at most once, and the visited set is empty when the
\* resolution of an entity starts.
C18_AsStated ==
    /\ NoDuplicates(expanded)
    /\ (FieldResolved /\ last_field.depth = 1 /\ RTop.i = 2) =>
           last_field.visited = <<>>

\* C18 amended: within the resolution of one top-level field of an entity's
\* schema each object type is visited, and so expanded, at most once; a field
\* that reaches an already visited type again is dropped; and the visited
\* set is empty when the resolution of a top-level field starts, the first
\* field of the next entity included.
C18_OncePerTopLevelField ==
    /\ NoDuplicates(objs)
    /\ \A i \in 2..Len(rstack) : InList(rstack[i].type, objs)
    /\ NoDuplicates([i \in 1..Len(rstack) - 1 |-> rstack[i + 1].type])
    /\ FieldResolved =>
         /\ last_field.depth = 1 => last_field.visited = <<>>
         /\ (/\ Base(last_field.target).kind = "OBJECT"
             /\ InList(Base(last_field.target).name, last_field.visited))
            => last_field.outcome = "none"
         /\ last_field.outcome = "expand" =>
                ~InList(Base(last_field.target).name, last_field.visited)

\* C18 witness: Address, already expanded for Customer.defaultAddress, is
\* expanded again for Customer.addresses, and its reference to itself was
\* dropped.
C18_Witness ==
    /\ expanded = <<"Address", "Country", "Address", "Country">>
    /\ last_field.type = "Address"
    /\ last_field.field = "reference"
    /\ last_field.target = Object("Address")
    /\ last_field.outcome = "none"

RECURSIVE NoEmptyObject(_)
\* No object type in the type dict is without child properties.
NoEmptyObject(d) ==
    \/ ~IsDict(d)
    \/ /\ HasKey(d, "type") /\ Get(d, "type") \in {Str("object"),
                                                  List(<<"object", "null">>)}
          => HasKey(d, "properties") /\ Get(d, "properties").e # <<>>
       /\ \A i \in 1..Len(d.e) : NoEmptyObject(d.e[i].v)

\* C19: what the type resolver produces contains no object property and no
\* array of objects with zero child properties: a field whose type resolves
\* to nothing usable is dropped from its parent, through any nesting of
\* NON_NULL and LIST.
C19_NoEmptyObjects ==
    /\ \A i \in 1..Len(rstack) : \A j \in 1..Len(rstack[i].properties) :
         NoEmptyObject(rstack[i].properties[j].type)
    /\ last_field.outcome = "empty" =>
         \A j \in 1..Len(RTop.properties) :
            RTop.properties[j].name # last_field.field

\* C19 witness: Country, reached as a non-null list from Address, had only
\* its reference back to Address and was dropped from Address.
C19_Witness ==
    /\ last_field.outcome = "empty"
    /\ last_field.field = "country"
    /\ last_field.target = Object("Country")
    /\ schema_gql["Address"][2].type = NonNull(ListOf(NonNull(Object("Country"))))
    /\ RTop.type = "Address"

\* C16: every query built for the entity selects its primary-key fields and
\* its incremental key, selected explicitly or not, in every state of the
\* run, after any sequence of error-recovery prunes.
C16_KeysAlwaysSelected ==
    event.kind = "request" =>
        \A key \in primary_keys \cup {replication_key} :
            <<key>> \in QueryFields(Top.req.query)

(***************************************************************************)
(* Claims about the bulk query builder                                     *)
(***************************************************************************)

Count(token, text) == Cardinality({i \in 1..Len(text) : text[i] = token})

\* The root query requires a static argument.
HasStatic ==
    \E i \in 1..Len(RootQueries) :
        /\ RootQueries[i].name = bstream.query_name
        /\ InList("includeClosed", RootQueries[i].args)
\* The incremental filter applies.
HasIncremental ==
    bstream.replication_key # Null /\ bstream.starting_timestamp # NoTimestamp
IncrementalText ==
    <<"query: \"updated_at:>", bstream.starting_timestamp.date, "T",
      bstream.starting_timestamp.time, "\"">>

\* C15: the bulk query built for an empty filter set has no argument
\* parentheses at all; for a non-empty filter set it has exactly one pair of
\* parentheses, around the filters joined by commas, the static required
\* arguments first and the incremental filter (updated_at:>timestamp) last.
C15_FilterParentheses ==
    qpc = "built" =>
        LET f == document.filters
            inner == SubSeq(f, 2, Len(f) - 1)
        IN /\ (~HasStatic /\ ~HasIncremental) =>
                 f = <<>> /\ Count("(", f) = 0 /\ Count(")", f) = 0
           /\ (HasStatic \/ HasIncremental) =>
                 /\ Len(f) >= 3 /\ f[1] = "(" /\ f[Len(f)] = ")"
                 /\ Count("(", f) = 1 /\ Count(")", f) = 1
                 /\ HasStatic => inner[1] = "includeClosed: true"
                 /\ HasIncremental =>
                      SubSeq(inner, Len(inner) - 4, Len(inner)) = IncrementalText
                 /\ Count(",", inner) =
                      (IF HasStatic /\ HasIncremental THEN 1 ELSE 0)
                 /\ Len(inner) = (IF HasStatic THEN 1 ELSE 0)
                                 + (IF HasIncremental THEN 5 ELSE 0)
                                 + Count(",", inner)

\* C15 witness: a query was built with a static argument and an incremental
\* filter from a timestamp that has microseconds.
C15_Witness ==
    /\ qpc = "built"
    /\ HasStatic
    /\ HasIncremental
    /\ bstream.starting_timestamp.microsecond = 999999
    /\ document.filters = <<"(", "includeClosed: true", ",",
                            "query: \"updated_at:>", "2024-06-30", "T",
                            "23:59:59", "\"", ")">>

(***************************************************************************)
(* Claims about the two modes                                              *)
(***************************************************************************)

BulkConfigured == config_bulk.present /\ config_bulk.value

C20_OneJobNoPaging ==
    BulkConfigured =>
        /\ submissions <= 1
        /\ spc \in {"running", "done", "raised"} => submissions = 1
        /\ nrequests = 0
        /\ gpc = "idle"
        /\ stack = <<>>
        /\ pruned = {}
        /\ schema = CustomersSchema

C20_QueryKept ==
    BulkConfigured =>
        /\ schema' = schema
        /\ query_cache.cached => query_cache' = query_cache

\* C20: in bulk mode a sync submits exactly one bulk job and sends no paged
\* request, and field-level error recovery never runs: the schema and the
\* query, once built, are not changed during the sync, whatever the outcome
\* of the job.
C20_BulkModeOneJob ==
    /\ []C20_OneJobNoPaging
    /\ [][C20_QueryKept]_vars

\* C20 witness: a bulk-mode sync ended with a fatal error of its one job,
\* after polling, with the query it had built still cached.
C20_Witness ==
    /\ BulkConfigured
    /\ spc = "raised"
    /\ submissions = 1
    /\ polls >= 1
    /\ query_cache = Cached(query_bulk(CustomersStream, CustomersSchema).value)

(***************************************************************************)
(* Claims about what a prune changes and what a replay yields              *)
(***************************************************************************)

\* The field of the entity's node that an error path names.
FieldOfPath(path) == SubSeq(path, 5, Len(path))

\* The step prunes the field at an error path.
PruneStep == event'.kind = "prune" /\ schema' # schema

\* C21: pruning the field at an error path changes only that field: every
\* other property of the schema is left as it was, fields of the same name
\* under other parents and the entity's primary-key and incremental-key
\* fields included.
C21_PruneOnlyThatField ==
    [][PruneStep =>
         SchemaFields(schema') =
             SchemaFields(schema) \ {FieldOfPath(event'.error.path)}]_vars

\* C23: within one interactive sync each server record is yielded at most
\* once, also when error recovery runs.
C23_YieldedOnce ==
    \A i \in 1..Len(yielded) : \A j \in 1..Len(yielded) :
        yielded[i] = yielded[j] => i = j

\* C25: every branch rendered into the selection set of a request has at
\* least one child field between its braces, also after pruning removed the
\* last child of an object property.
C25_NoEmptyBranch ==
    event.kind = "request" =>
        LET tokens == Top.req.query.selected_fields IN
        \A i \in 1..Len(tokens) - 1 : ~(tokens[i] = "{" /\ tokens[i + 1] = "}")

\* C24: reading the paginator's current value is idempotent between two
\* responses: a second read with no response in between returns the same
\* page size and cursor, leaves the pagination state unchanged and does not
\* sleep again.
C24_ReadIdempotent ==
    [][(ppc = "response" /\ ppc' = "response") =>
          /\ requested' = requested
          /\ pag' = pag
          /\ slept' = 0]_vars

\* C22: prune-and-retry terminates: every replay is sent with a query
\* strictly smaller than the one whose response it recovers from, also when
\* the rejected field is one the schema does not contain, such as a field of
\* the fixed selection added to the query of orders.
C22_ReplaySmallerQuery ==
    \A i \in 2..Len(stack) :
        stack[i].req # NoGqlRequest =>
            /\ QueryFields(stack[i].req.query)
                   \subseteq QueryFields(stack[i - 1].req.query)
            /\ QueryFields(stack[i].req.query)
                   # QueryFields(stack[i - 1].req.query)

====
